---- MODULE Spec2Model ----
(***************************************************************************)
(* A model of dsrs (datasketches-rs): the heavy-hitter ownership bridge of *)
(* src/src/wrapper/hh.rs, the line reducers of src/src/counters.rs and the *)
(* deserialisers of the sketch wrappers.                                   *)
(*                                                                         *)
(* The native sketch engines (datasketches-cpp) are not part of the Rust   *)
(* sources; they are modelled from the written specification: the heavy-   *)
(* hitter engine as a Misra-Gries style counter table over addresses with  *)
(* decrement-and-evict purging, the distinct-count engine as the set of    *)
(* observed values.                                                        *)
(***************************************************************************)
EXTENDS Integers, Sequences, FiniteSets, TLC

\* ------------------------------------------------------------------ bounds

\* Number of heap cells the allocator can hand out for interned keys.
MaxAddr == 3
\* Cap on the total weight a heavy-hitter sketch is fed.
MaxTotalWeight == 4
\* Cap on the number of input lines one run of the reducers reads.
MaxLines == 3
\* Longest byte string handed to a deserialiser.
MaxDeserLen == 3
\* Cap on the stream length of a quantiles sketch.
MaxKllN == 3
\* Distinct lines and lines read by the HeavyHitter reducer.
MaxTopKeys == 8
MaxTopLines == 15

Addrs == 1..MaxAddr
SketchIds == {1, 2}
\* Byte-string keys observed by the heavy-hitter sketches: "a", "b".
HhKeys == {<<97>>, <<98>>}
Weights == {0, 1, 2}
LgKs == {1, 2}

Groups == {1, 2}

VARIABLES
    \* --- heavy hitters
    heap,     \* live ThinBox allocations: address -> bytes
    sk,       \* the HhSketch values, by slot
    fault,    \* "none", "abort" (assertion failure / panic), "ub" (dangling read)
    cbAddr,   \* the address argument of the last direct removal callback (0: none)
    seen,     \* per slot and key, the total weight fed to the sketch last built there
    \* --- line reducers
    mode,     \* "plain" (Counter / Merger) or "keyed" (KeyedCounter / KeyedMerger)
    phase,    \* "map": lines are being counted; "merge": serialized lines are merged
    op,       \* the last operation: "none", "read", "emit", "merge"
    lastLine, \* the line handed to the last read_line
    nread,    \* number of input lines read so far
    whole,    \* the Counter that reads every line
    parts,    \* one Counter per group
    kwhole,   \* the KeyedCounter that reads every line
    kparts,   \* one KeyedCounter per group
    proj,     \* per key, a Counter fed the values of that key's lines
    pending,  \* serialized output lines not merged yet
    merger,   \* the Merger
    kmerger,  \* the KeyedMerger
    foreign,  \* the merger has read a line that no counter of the run emitted
    panicked, \* a read_line panicked: the run is over
    \* --- deserialisers
    deserKind, deserInput, deserResult,
    \* --- unions and intersections
    objs,     \* live engine objects behind handles: object id -> coupons
    snaps,    \* the snapshot handles taken and not merged yet
    got,      \* per union, the values of every handle it absorbed
    ix,       \* the ThetaIntersection
    ixMerges, \* number of merges into the intersection
    \* --- command line
    topk,     \* the k given to HeavyHitter::new (0: none)
    hhLg2k,   \* lg2_k of the HhSketch it created (0: not created)
    srcLines, \* the lines written to the stream, without terminators
    ends,     \* per line, its terminator: "unix" or "dos"
    rest,     \* the bytes of the stream not consumed yet
    delivered,\* the arguments of the read_line calls so far, in order
    returned, \* reduce_stream has returned the reducer
    \* --- queries, quantiles, envelopes, top-k
    observed, \* the keys given to update of the sketch in slot 1, weight 0 included
    lastQuery,\* the last call made: its kind, the rows or number returned, the slot
    kll,      \* the KllFloatSketch values, by slot
    env,      \* the MessagePack envelope handed to from_msgpack
    envResult,\* what from_msgpack returned
    hhr,      \* the HeavyHitter reducer
    fed       \* per line content, the number of times the HeavyHitter read it

hhVars == <<heap, sk, fault, cbAddr, seen>>
redVars == <<mode, phase, op, lastLine, nread, whole, parts, kwhole, kparts, proj,
             pending, merger, kmerger, foreign, panicked>>
deserVars == <<deserKind, deserInput, deserResult>>
algVars == <<objs, snaps, got, ix, ixMerges>>
cliVars == <<topk, hhLg2k, srcLines, ends, rest, delivered, returned>>
moreVars == <<observed, lastQuery, kll, env, envResult, hhr, fed>>
vars == <<hhVars, redVars, deserVars, algVars, cliVars, moreVars>>

\* ------------------------------------------------------------- helpers

Put(f, k, v) == [x \in DOMAIN f \cup {k} |-> IF x = k THEN v ELSE f[x]]
Del(f, ks) == [x \in DOMAIN f \ ks |-> f[x]]
Range(f) == {f[x] : x \in DOMAIN f}
EmptyFn == [x \in {} |-> 0]

RECURSIVE Pow2(_)
Pow2(n) == IF n = 0 THEN 1 ELSE 2 * Pow2(n - 1)

\* A slot that holds no sketch (not constructed yet, or dropped).
NoSketch ==
    [alive |-> FALSE, lg2_k |-> 0, intern |-> {}, counts |-> EmptyFn,
     total_weight |-> 0, offset |-> 0]

\* ---------------------------------------------- the native engine (hh)

\* Number of entries the engine's table keeps before it purges.
EngineCapacity(lg2_k) == (3 * Pow2(lg2_k)) \div 4

\* new_opaque_hh_sketch: an empty counter table.
new_opaque_hh_sketch(lg2_k) ==
    [alive |-> TRUE, lg2_k |-> lg2_k, intern |-> {}, counts |-> EmptyFn,
     total_weight |-> 0, offset |-> 0]

\* The decrement-and-evict step: every count is lowered by m, one of the
\* counts of the table (a sample median); entries that reach zero leave.
EnginePurge(e, m) ==
    LET keep == {a \in DOMAIN e.counts : e.counts[a] > m}
    IN  [e EXCEPT !.counts = [a \in keep |-> e.counts[a] - m],
                  !.offset = e.offset + m]

\* OpaqueHhSketch::update(addr, weight).  The result is the set of possible
\* outcomes [e, evicted]: the engine after the call and the addresses it
\* evicted, for each of which it signals the removal callback.
EngineUpdate(e, addr, weight) ==
    IF weight = 0
    THEN {[e |-> e, evicted |-> {}]}
    ELSE LET old == IF addr \in DOMAIN e.counts THEN e.counts[addr] ELSE 0
             e1  == [e EXCEPT !.counts = Put(e.counts, addr, old + weight),
                              !.total_weight = e.total_weight + weight]
         IN  IF Cardinality(DOMAIN e1.counts) > EngineCapacity(e.lg2_k)
             THEN {[e |-> EnginePurge(e1, m),
                    evicted |-> {a \in DOMAIN e1.counts : e1.counts[a] <= m}]
                   : m \in Range(e1.counts)}
             ELSE {[e |-> e1, evicted |-> {}]}

\* The rows the engine reports: address, lower bound, upper bound.
EngineState(e) ==
    {[addr |-> a, lb |-> e.counts[a], ub |-> e.counts[a] + e.offset]
     : a \in DOMAIN e.counts}

Engine_estimate_no_fp(e) == {r \in EngineState(e) : r.lb > e.offset}

Engine_estimate_no_fn(e) == {r \in EngineState(e) : r.ub > e.offset}

\* --------------------------------------------- hh.rs: the Rust wrapper

\* A variant of remove_from_hashset whose assertion is missing: it returns
\* normally when nothing was removed.
remove_from_hashset_noassert(w, addr) ==
    IF addr \notin DOMAIN w.heap
    THEN [w EXCEPT !.fault = "ub"]
    ELSE LET hit == {b \in w.intern : b \in DOMAIN w.heap
                                      /\ w.heap[b] = w.heap[addr]}
         IN  IF hit = {}
             THEN w
             ELSE LET b == CHOOSE x \in hit : TRUE
                  IN  [w EXCEPT !.heap = Del(w.heap, {b}),
                                !.intern = w.intern \ {b}]

\* remove_from_hashset(hashset_addr, addr) on the table `intern`.
\* Reads the bytes behind addr, removes the entry with equal content (its
\* box is freed), and asserts that an entry was removed.
remove_from_hashset(w, addr) ==
    IF addr \notin DOMAIN w.heap
    THEN [w EXCEPT !.fault = "ub"]
    ELSE LET hit == {b \in w.intern : b \in DOMAIN w.heap
                                      /\ w.heap[b] = w.heap[addr]}
         IN  IF hit = {}
             THEN [w EXCEPT !.fault = "abort"]
             ELSE LET b == CHOOSE x \in hit : TRUE
                  IN  [w EXCEPT !.heap = Del(w.heap, {b}),
                                !.intern = w.intern \ {b}]

\* The callbacks the engine issues during one call, one after the other.
RECURSIVE RunCallbacks(_, _)
RunCallbacks(w, addrs) ==
    IF addrs = {} \/ w.fault # "none"
    THEN w
    ELSE LET a == CHOOSE x \in addrs : \A y \in addrs : x <= y
         IN  RunCallbacks(remove_from_hashset(w, a), addrs \ {a})

\* HhSketch::new
HhSketch_new(lg2_k) == new_opaque_hh_sketch(lg2_k)

\* A variant of InternKey that boxes the value anew on every update and
\* replaces the entry of equal content, whose box is freed.
InternKey_rebox(h, intern, value) ==
    LET found == {a \in intern : a \in DOMAIN h /\ h[a] = value}
        h1 == Del(h, found)
    IN  {[heap |-> Put(h1, a, value), intern |-> (intern \ found) \cup {a}, addr |-> a]
         : a \in Addrs \ DOMAIN h1}

\* A variant of InternKey without the lookup: every update boxes the value
\* and inserts the box.
InternKey_always_insert(h, intern, value) ==
    {[heap |-> Put(h, a, value), intern |-> intern \cup {a}, addr |-> a]
     : a \in Addrs \ DOMAIN h}

\* The first half of HhSketch::update: look the value up by content, insert
\* a fresh boxed copy when absent, and take the address of the entry.
\* Outcomes [heap, intern, addr], one per address the allocator may return.
InternKey(h, intern, value) ==
    LET found == {a \in intern : a \in DOMAIN h /\ h[a] = value}
    IN  IF found # {}
        THEN {[heap |-> h, intern |-> intern, addr |-> a] : a \in found}
        ELSE {[heap |-> Put(h, a, value), intern |-> intern \cup {a}, addr |-> a]
              : a \in Addrs \ DOMAIN h}

\* A variant of HhSketch::update in which the engine's removal callbacks are
\* not run inside the call.
HhSketch_update_deferred(h, s, value, weight) ==
    {[heap |-> k.heap, s |-> [o.e EXCEPT !.intern = k.intern], fault |-> "none"]
     : <<k, o>> \in UNION {{<<k, o>> : o \in EngineUpdate(s, k.addr, weight)}
                           : k \in InternKey(h, s.intern, value)}}

\* HhSketch::update(value, weight): outcomes [heap, s, fault].
HhSketch_update(h, s, value, weight) ==
    {LET w == RunCallbacks([heap |-> k.heap, intern |-> k.intern, fault |-> "none"],
                           o.evicted)
     IN  [heap |-> w.heap, s |-> [o.e EXCEPT !.intern = w.intern], fault |-> w.fault]
     : <<k, o>> \in
        UNION {{<<k, o>> : o \in EngineUpdate(s, k.addr, weight)}
               : k \in InternKey(h, s.intern, value)}}

\* HhSketch::thin_row_to_owned
thin_row_to_owned(h, row) == [key |-> h[row.addr], lb |-> row.lb, ub |-> row.ub]

\* A variant of estimate_no_fp that fills the two bounds of a row the wrong
\* way round.
estimate_no_fp_swapped(h, s) ==
    {[key |-> h[r.addr], lb |-> r.ub, ub |-> r.lb] : r \in Engine_estimate_no_fp(s)}

\* HhSketch::estimate_no_fp
estimate_no_fp(h, s) == {thin_row_to_owned(h, r) : r \in Engine_estimate_no_fp(s)}

\* A variant of estimate_no_fn that pads the rows with a row for the empty
\* key carrying the sketch's offset.
estimate_no_fn_padded(h, s) ==
    {thin_row_to_owned(h, r) : r \in Engine_estimate_no_fn(s)}
        \cup {[key |-> <<>>, lb |-> 0, ub |-> s.offset]}

\* HhSketch::estimate_no_fn
estimate_no_fn(h, s) == {thin_row_to_owned(h, r) : r \in Engine_estimate_no_fn(s)}

\* The replay loop of HhSketch::merge over the rows still to replay; the
\* engine hands the rows over in its own table order.
RECURSIVE MergeReplay(_, _, _)
MergeReplay(c, h0, rows) ==
    IF rows = {} \/ c.fault # "none"
    THEN {c}
    ELSE UNION {UNION {MergeReplay(n, h0, rows \ {r})
                       : n \in HhSketch_update(c.heap, c.s,
                                               thin_row_to_owned(h0, r).key, r.lb)}
                : r \in rows}

\* A variant of HhSketch::merge that keeps its own offset and forgets the
\* other sketch's.
HhSketch_merge_own_offset(h, self, other) ==
    LET state == EngineState(other)
        total_weight == self.total_weight + other.total_weight
    IN  {[c EXCEPT !.s.total_weight = total_weight]
         : c \in MergeReplay([heap |-> h, s |-> self, fault |-> "none"], h, state)}

\* A variant of the replay loop that feeds each row's upper bound.
RECURSIVE MergeReplay_ub(_, _, _)
MergeReplay_ub(c, h0, rows) ==
    IF rows = {} \/ c.fault # "none" THEN {c}
    ELSE UNION {UNION {MergeReplay_ub(n, h0, rows \ {r})
                       : n \in HhSketch_update(c.heap, c.s, thin_row_to_owned(h0, r).key, r.ub)}
                : r \in rows}

\* A variant of HhSketch::merge that replays upper bounds.
HhSketch_merge_replay_ub(h, self, other) ==
    LET state == EngineState(other)
        total_weight == self.total_weight + other.total_weight
    IN  {[c EXCEPT !.s.total_weight = total_weight,
                   !.s.offset = c.s.offset + other.offset]
         : c \in MergeReplay_ub([heap |-> h, s |-> self, fault |-> "none"], h, state)}

\* A variant of HhSketch::merge that adds the other sketch's total weight to
\* the total the replay has left, so that replayed weights count twice.
HhSketch_merge_counted_twice(h, self, other) ==
    LET state == EngineState(other)
    IN  {[c EXCEPT !.s.total_weight = c.s.total_weight + other.total_weight,
                   !.s.offset = c.s.offset + other.offset]
         : c \in MergeReplay([heap |-> h, s |-> self, fault |-> "none"], h, state)}

\* HhSketch::merge(self, other): outcomes [heap, s, fault].
HhSketch_merge(h, self, other) ==
    LET state == EngineState(other)
        total_weight == self.total_weight + other.total_weight
    IN  {[c EXCEPT !.s.total_weight = total_weight,
                   !.s.offset = c.s.offset + other.offset]
         : c \in MergeReplay([heap |-> h, s |-> self, fault |-> "none"], h, state)}

\* A variant of Clone that copies the handle field by field, table addresses
\* included.
HhSketch_clone_bitwise(h, self) == {[heap |-> h, s |-> self, fault |-> "none"]}

\* impl Clone for HhSketch
HhSketch_clone(h, self) == HhSketch_merge(h, HhSketch_new(self.lg2_k), self)

\* A variant of the drop in which the table is freed before the engine is
\* destroyed: the engine's callbacks then read freed boxes.
HhSketch_drop_table_first(h, s) ==
    LET h1 == Del(h, s.intern)
        w == RunCallbacks([heap |-> h1, intern |-> {}, fault |-> "none"], DOMAIN s.counts)
    IN  [heap |-> w.heap, s |-> NoSketch, fault |-> w.fault]

\* Dropping an HhSketch: `inner` goes first and the engine signals removal of
\* every address it retains; then the table is dropped with what is left.
HhSketch_drop(h, s) ==
    LET w == RunCallbacks([heap |-> h, intern |-> s.intern, fault |-> "none"],
                          DOMAIN s.counts)
    IN  [heap |-> Del(w.heap, w.intern), s |-> NoSketch, fault |-> w.fault]

\* ----------------------------------------------------------- actions (hh)

\* The reducers and deserialisers before any of their operations.
InitRedIdle ==
    /\ mode = "plain" /\ phase = "map" /\ op = "none" /\ lastLine = <<>>
    /\ nread = 0
    /\ whole = {} /\ parts = [g \in Groups |-> {}]
    /\ kwhole = EmptyFn /\ kparts = [g \in Groups |-> EmptyFn]
    /\ proj = EmptyFn
    /\ pending = <<>> /\ merger = {} /\ kmerger = EmptyFn
    /\ foreign = FALSE /\ panicked = FALSE

InitDeserIdle ==
    /\ deserKind = "none" /\ deserInput = <<>> /\ deserResult = "none"

UnionIds == {1, 2}

\* Two empty unions, an intersection nothing was merged into.
InitAlgIdle ==
    /\ objs = [u \in UnionIds |-> {}]
    /\ snaps = {}
    /\ got = [u \in UnionIds |-> {}]
    /\ ix = [valid |-> FALSE, retained |-> {}]
    /\ ixMerges = 0

\* No HeavyHitter was asked for and no stream was opened.
InitCliIdle ==
    /\ topk = 0 /\ hhLg2k = 0
    /\ srcLines = <<>> /\ ends = <<>> /\ rest = <<>>
    /\ delivered = <<>> /\ returned = FALSE

KllIds == {1, 2}
TopKeys == 1..MaxTopKeys

NoQuery == [kind |-> "none", rows |-> {}, est |-> 0]
\* A slot without a sketch. The least and the greatest value are kept as
\* sequences of length 0 (no value yet: the getters return NaN) or 1.
NoKll == [alive |-> FALSE, k |-> 0, n |-> 0, min |-> <<>>, max |-> <<>>]
NoEnvelope == <<>>
NoResult == [status |-> "none", sketch |-> NoKll]
NoHeavyHitter == [panicked |-> FALSE, sketch |-> NoSketch, k |-> 0]

\* No query, no quantile sketch, no envelope and no HeavyHitter yet.
InitMoreIdle ==
    /\ observed = {}
    /\ lastQuery = NoQuery
    /\ kll = [i \in KllIds |-> NoKll]
    /\ env = NoEnvelope
    /\ envResult = NoResult
    /\ hhr = NoHeavyHitter
    /\ fed = [key \in TopKeys |-> 0]

\* Nothing has been observed.
NoSeen == [i \in SketchIds |-> [k \in HhKeys |-> 0]]

InitHh ==
    /\ heap = EmptyFn
    /\ sk = [i \in SketchIds |-> NoSketch]
    /\ fault = "none"
    /\ cbAddr = 0
    /\ seen = NoSeen
    /\ InitRedIdle
    /\ InitDeserIdle
    /\ InitAlgIdle
    /\ InitCliIdle
    /\ InitMoreIdle

New(i, lg2_k) ==
    /\ fault = "none"
    /\ ~sk[i].alive
    /\ sk' = [sk EXCEPT ![i] = HhSketch_new(lg2_k)]
    /\ seen' = [seen EXCEPT ![i] = [k \in HhKeys |-> 0]]
    /\ UNCHANGED <<heap, fault, cbAddr, redVars, deserVars, algVars, cliVars, moreVars>>

Update(i, value, weight) ==
    /\ fault = "none"
    /\ sk[i].alive
    /\ sk[i].total_weight + weight <= MaxTotalWeight
    /\ \E o \in HhSketch_update(heap, sk[i], value, weight) :
        /\ heap' = o.heap
        /\ sk' = [sk EXCEPT ![i] = o.s]
        /\ fault' = o.fault
    /\ seen' = [seen EXCEPT ![i][value] = @ + weight]
    /\ UNCHANGED <<cbAddr, redVars, deserVars, algVars, cliVars, moreVars>>

Merge(i, j) ==
    /\ fault = "none"
    /\ i # j
    /\ sk[i].alive /\ sk[j].alive
    /\ sk[i].total_weight + sk[j].total_weight <= MaxTotalWeight
    /\ \E o \in HhSketch_merge(heap, sk[i], sk[j]) :
        /\ heap' = o.heap
        /\ sk' = [sk EXCEPT ![i] = o.s]
        /\ fault' = o.fault
    /\ seen' = [seen EXCEPT ![i] = [k \in HhKeys |-> seen[i][k] + seen[j][k]]]
    /\ UNCHANGED <<cbAddr, redVars, deserVars, algVars, cliVars, moreVars>>

Clone(i, j) ==
    /\ fault = "none"
    /\ i # j
    /\ sk[i].alive /\ ~sk[j].alive
    /\ \E o \in HhSketch_clone(heap, sk[i]) :
        /\ heap' = o.heap
        /\ sk' = [sk EXCEPT ![j] = o.s]
        /\ fault' = o.fault
    /\ seen' = [seen EXCEPT ![j] = seen[i]]
    /\ UNCHANGED <<cbAddr, redVars, deserVars, algVars, cliVars, moreVars>>

Drop(i) ==
    /\ fault = "none"
    /\ sk[i].alive
    /\ LET o == HhSketch_drop(heap, sk[i])
       IN  /\ heap' = o.heap
           /\ sk' = [sk EXCEPT ![i] = o.s]
           /\ fault' = o.fault
    /\ UNCHANGED <<cbAddr, seen, redVars, deserVars, algVars, cliVars, moreVars>>

NextHh ==
    \/ \E i \in SketchIds, l \in LgKs : New(i, l)
    \/ \E i \in SketchIds, v \in HhKeys, w \in Weights : Update(i, v, w)
    \/ \E i, j \in SketchIds : Merge(i, j)
    \/ \E i, j \in SketchIds : Clone(i, j)
    \/ \E i \in SketchIds : Drop(i)

SpecHh == InitHh /\ [][NextHh]_vars

\* ------------------------------------------- the removal callback alone

\* Every heap of live boxes, and every table over it whose entries differ in
\* content; the engine retains the table's entries.
InitCallback ==
    /\ \E live \in SUBSET Addrs : heap \in [live -> HhKeys]
    /\ \E tbl \in SUBSET (DOMAIN heap) :
        /\ \A a, b \in tbl : heap[a] = heap[b] => a = b
        /\ sk = [i \in SketchIds |->
                   IF i = 1
                   THEN [HhSketch_new(2) EXCEPT !.intern = tbl,
                                                !.counts = [a \in tbl |-> 1],
                                                !.total_weight = Cardinality(tbl)]
                   ELSE NoSketch]
    /\ fault = "none"
    /\ cbAddr = 0
    /\ seen = NoSeen
    /\ InitRedIdle
    /\ InitDeserIdle
    /\ InitAlgIdle
    /\ InitCliIdle
    /\ InitMoreIdle

\* The engine of sketch 1 signals the removal of addr.
Callback(addr) ==
    /\ fault = "none"
    /\ addr \in DOMAIN heap
    /\ LET w == remove_from_hashset(
                    [heap |-> heap, intern |-> sk[1].intern, fault |-> "none"], addr)
       IN  /\ heap' = w.heap
           /\ fault' = w.fault
           /\ sk' = [sk EXCEPT ![1].intern = w.intern,
                               ![1].counts = Del(@, {addr})]
    /\ cbAddr' = addr
    /\ UNCHANGED <<seen, redVars, deserVars, algVars, cliVars, moreVars>>

NextCallback == \E addr \in Addrs : Callback(addr)

SpecCallback == InitCallback /\ [][NextCallback]_vars

\* ------------------------------------------------ distinct-count engine

\* The engine keeps one coupon (0..63) per distinct value it has seen; the
\* coupon of a value is a hash of its bytes.
RECURSIVE Hash(_)
Hash(value) ==
    IF value = <<>> THEN 0
    ELSE (Hash(SubSeq(value, 1, Len(value) - 1)) * 4 + (value[Len(value)] % 4) + 1) % 64

RECURSIVE SortedSeq(_)
SortedSeq(S) ==
    IF S = {} THEN <<>>
    ELSE LET m == CHOOSE x \in S : \A y \in S : x <= y
         IN  <<m>> \o SortedSeq(S \ {m})

new_opaque_cpc_sketch == {}

OpaqueCpcSketch_update(s, value) == s \cup {Hash(value)}

OpaqueCpcSketch_estimate(s) == Cardinality(s)

\* Wire format: family byte, number of coupons, coupons in ascending order.
OpaqueCpcSketch_serialize(s) == <<16, Cardinality(s)>> \o SortedSeq(s)

\* The engine rejects (throws on) anything that is not such an image.
deserialize_opaque_cpc_sketch(buf) ==
    LET n == Len(buf) - 2
        ok == /\ Len(buf) >= 2
              /\ buf[1] = 16
              /\ buf[2] = n
              /\ \A i \in 3..Len(buf) : buf[i] < 64
              /\ \A i \in 3..(Len(buf) - 1) : buf[i] < buf[i + 1]
    IN  IF ok THEN [ok |-> TRUE, sketch |-> {buf[i] : i \in 3..Len(buf)}]
        ELSE [ok |-> FALSE, sketch |-> {}]

new_opaque_cpc_union == {}

OpaqueCpcUnion_merge(u, s) == u \cup s

OpaqueCpcUnion_sketch(u) == u

\* ---------------------------------------------------------- CpcSketch

CpcSketch_new == new_opaque_cpc_sketch
CpcSketch_estimate(s) == OpaqueCpcSketch_estimate(s)
CpcSketch_update(s, value) == OpaqueCpcSketch_update(s, value)
CpcSketch_serialize(s) == OpaqueCpcSketch_serialize(s)
\* The engine's exception becomes DataSketchesError::CXXError.
CpcSketch_deserialize(buf) ==
    LET r == deserialize_opaque_cpc_sketch(buf)
    IN  IF r.ok THEN [ok |-> TRUE, err |-> "none", sketch |-> r.sketch]
        ELSE [ok |-> FALSE, err |-> "CXXError", sketch |-> {}]
CpcUnion_new == new_opaque_cpc_union
\* The accumulator is replaced by the handle instead of absorbing it.
CpcUnion_merge_last(u, s) == s

CpcUnion_merge(u, s) == OpaqueCpcUnion_merge(u, s)
CpcUnion_sketch(u) == OpaqueCpcUnion_sketch(u)

\* ------------------------------------------------- base64, no padding

\* The standard alphabet: A-Z, a-z, 0-9, '+', '/'.
Base64Char(v) ==
    IF v < 26 THEN 65 + v
    ELSE IF v < 52 THEN 97 + (v - 26)
    ELSE IF v < 62 THEN 48 + (v - 52)
    ELSE IF v = 62 THEN 43 ELSE 47

\* The value of a symbol, -1 for a byte outside the alphabet.
Base64Val(c) ==
    IF c >= 65 /\ c <= 90 THEN c - 65
    ELSE IF c >= 97 /\ c <= 122 THEN c - 97 + 26
    ELSE IF c >= 48 /\ c <= 57 THEN c - 48 + 52
    ELSE IF c = 43 THEN 62
    ELSE IF c = 47 THEN 63 ELSE -1

RECURSIVE Base64Encode(_)
Base64Encode(b) ==
    IF Len(b) = 0 THEN <<>>
    ELSE IF Len(b) = 1
    THEN <<Base64Char(b[1] \div 4), Base64Char((b[1] % 4) * 16)>>
    ELSE IF Len(b) = 2
    THEN <<Base64Char(b[1] \div 4),
           Base64Char((b[1] % 4) * 16 + b[2] \div 16),
           Base64Char((b[2] % 16) * 4)>>
    ELSE <<Base64Char(b[1] \div 4),
           Base64Char((b[1] % 4) * 16 + b[2] \div 16),
           Base64Char((b[2] % 16) * 4 + b[3] \div 64),
           Base64Char(b[3] % 64)>> \o Base64Encode(SubSeq(b, 4, Len(b)))

\* The bytes of a run of symbol values whose length is not 1 modulo 4 and
\* whose unused trailing bits are zero.
RECURSIVE Base64Bytes(_)
Base64Bytes(v) ==
    IF Len(v) = 0 THEN <<>>
    ELSE IF Len(v) = 2 THEN <<v[1] * 4 + v[2] \div 16>>
    ELSE IF Len(v) = 3
    THEN <<v[1] * 4 + v[2] \div 16, (v[2] % 16) * 16 + v[3] \div 4>>
    ELSE <<v[1] * 4 + v[2] \div 16,
           (v[2] % 16) * 16 + v[3] \div 4,
           (v[3] % 4) * 64 + v[4]>> \o Base64Bytes(SubSeq(v, 5, Len(v)))

\* Fails on a byte outside the alphabet, on a length of 1 modulo 4 and on
\* non-zero trailing bits in the last symbol.
Base64Decode(s) ==
    LET v == [i \in 1..Len(s) |-> Base64Val(s[i])]
        r == Len(s) % 4
        ok == /\ \A i \in 1..Len(s) : v[i] >= 0
              /\ r # 1
              /\ r = 2 => v[Len(s)] % 16 = 0
              /\ r = 3 => v[Len(s)] % 4 = 0
    IN  IF ok THEN [ok |-> TRUE, bytes |-> Base64Bytes(v)]
        ELSE [ok |-> FALSE, bytes |-> <<>>]

\* str::from_utf8 succeeds; over bytes that are ASCII or 0xFF.
IsUtf8(line) == \A i \in 1..Len(line) : line[i] < 128

\* ------------------------------------------------------------ reducers

Counter_default == CpcSketch_new

Counter_serialize(c) == Base64Encode(CpcSketch_serialize(c))

\* A variant of Counter::deserialize that hands the text to the engine
\* without decoding it.
Counter_deserialize_undecoded(s) == CpcSketch_deserialize(s)

Counter_deserialize(s) ==
    LET d == Base64Decode(s)
    IN  IF ~d.ok THEN [ok |-> FALSE, err |-> "DecodeError", sketch |-> {}]
        ELSE CpcSketch_deserialize(d.bytes)

Counter_estimate(c) == CpcSketch_estimate(c)

Counter_read_line(c, line) == CpcSketch_update(c, line)

\* memchr::memchr: the index of the first occurrence of byte b, 0 for None.
memchr(b, line) ==
    IF \E i \in 1..Len(line) : line[i] = b
    THEN CHOOSE i \in 1..Len(line) :
            line[i] = b /\ \A j \in 1..(i - 1) : line[j] # b
    ELSE 0

\* A variant of memchr that finds the last occurrence.
memrchr(b, line) ==
    IF \E i \in 1..Len(line) : line[i] = b
    THEN CHOOSE i \in 1..Len(line) :
            line[i] = b /\ \A j \in (i + 1)..Len(line) : line[j] # b
    ELSE 0

\* A variant of KeyedCounter::read_line that splits at the last space.
KeyedCounter_read_line_rsplit(t, line) ==
    LET space_ix == memrchr(32, line)
    IN  IF space_ix = 0 THEN [t |-> t, panicked |-> TRUE]
        ELSE LET key == SubSeq(line, 1, space_ix - 1)
                 value == SubSeq(line, space_ix + 1, Len(line))
                 t1 == IF key \in DOMAIN t THEN t ELSE Put(t, key, Counter_default)
             IN  [t |-> Put(t1, key, Counter_read_line(t1[key], value)),
                  panicked |-> FALSE]

\* A variant of KeyedCounter::read_line that files a line without a space
\* under the empty key instead of panicking.
KeyedCounter_read_line_lenient(t, line) ==
    LET space_ix == memchr(32, line)
        key == IF space_ix = 0 THEN <<>> ELSE SubSeq(line, 1, space_ix - 1)
        value == SubSeq(line, space_ix + 1, Len(line))
        t1 == IF key \in DOMAIN t THEN t ELSE Put(t, key, Counter_default)
    IN  [t |-> Put(t1, key, Counter_read_line(t1[key], value)), panicked |-> FALSE]

KeyedCounter_read_line(t, line) ==
    LET space_ix == memchr(32, line)
    IN  IF space_ix = 0 THEN [t |-> t, panicked |-> TRUE]
        ELSE LET key == SubSeq(line, 1, space_ix - 1)
                 value == SubSeq(line, space_ix + 1, Len(line))
                 t1 == IF key \in DOMAIN t THEN t ELSE Put(t, key, Counter_default)
             IN  [t |-> Put(t1, key, Counter_read_line(t1[key], value)),
                  panicked |-> FALSE]

Merger_default == CpcUnion_new

Merger_counter(m) == CpcUnion_sketch(m)

\* A variant of Merger::read_line that keeps the last sketch read instead of
\* merging it into the union.
Merger_read_line_replace(m, line) ==
    IF ~IsUtf8(line) THEN [m |-> m, panicked |-> TRUE]
    ELSE LET counter == Counter_deserialize(line)
         IN  IF ~counter.ok THEN [m |-> m, panicked |-> TRUE]
             ELSE [m |-> counter.sketch, panicked |-> FALSE]

\* A variant of Merger::read_line that skips a line it cannot deserialize.
Merger_read_line_lenient(m, line) ==
    IF ~IsUtf8(line) THEN [m |-> m, panicked |-> TRUE]
    ELSE LET counter == Counter_deserialize(line)
         IN  IF ~counter.ok THEN [m |-> m, panicked |-> FALSE]
             ELSE [m |-> CpcUnion_merge(m, counter.sketch), panicked |-> FALSE]

Merger_read_line(m, line) ==
    IF ~IsUtf8(line) THEN [m |-> m, panicked |-> TRUE]
    ELSE LET counter == Counter_deserialize(line)
         IN  IF ~counter.ok THEN [m |-> m, panicked |-> TRUE]
             ELSE [m |-> CpcUnion_merge(m, counter.sketch), panicked |-> FALSE]

\* The key is cut one byte late and keeps the space that ends it.
KeyedMerger_read_line_long_key(t, line) ==
    LET space_ix == memchr(32, line)
    IN  IF space_ix = 0 THEN [t |-> t, panicked |-> TRUE]
        ELSE LET key == SubSeq(line, 1, space_ix)
                 value == SubSeq(line, space_ix + 1, Len(line))
                 t1 == IF key \in DOMAIN t THEN t ELSE Put(t, key, Merger_default)
                 r == Merger_read_line(t1[key], value)
             IN  [t |-> Put(t1, key, r.m), panicked |-> r.panicked]

\* The entry of a new key is inserted before the value is read, so it is in
\* the table when the inner read_line panics.
KeyedMerger_read_line(t, line) ==
    LET space_ix == memchr(32, line)
    IN  IF space_ix = 0 THEN [t |-> t, panicked |-> TRUE]
        ELSE LET key == SubSeq(line, 1, space_ix - 1)
                 value == SubSeq(line, space_ix + 1, Len(line))
                 t1 == IF key \in DOMAIN t THEN t ELSE Put(t, key, Merger_default)
                 r == Merger_read_line(t1[key], value)
             IN  [t |-> Put(t1, key, r.m), panicked |-> r.panicked]

KeyedMerger_state(t) == [key \in DOMAIN t |-> Merger_counter(t[key])]

\* ------------------------------------------------------ the dsrs pipeline

\* The lines a mapper may read, the empty line, lines without a space and a
\* line whose key is not UTF-8 included (bytes ' ', 'a', 'b', 0xff).
Lines ==
    {<<>>, <<97>>, <<32>>, <<97, 32>>, <<32, 97>>, <<97, 32, 97>>,
     <<97, 32, 32>>, <<98, 32, 97>>, <<255, 32, 97>>}

\* Lines a merger may be fed that no mapper wrote: invalid UTF-8, bytes
\* outside the base64 alphabet, a bad length, non-zero trailing bits, base64
\* of something that is not a sketch, two well-formed sketches, and keyed
\* forms of these.
ForeignLines ==
    {<<255>>, <<33>>, <<69>>, <<69, 66>>, <<65, 65, 65, 65>>, <<69, 65, 65>>,
     <<69, 65, 69, 72>>, <<97, 32, 69, 65, 69, 72>>, <<97, 32, 33>>,
     <<98, 32, 255>>}

RECURSIVE FormatCount(_)
FormatCount(n) ==
    IF n < 10 THEN <<48 + n>> ELSE FormatCount(n \div 10) \o <<48 + (n % 10)>>

\* print_single: the text of one output line (without its newline).
print_single(c, raw) ==
    IF raw THEN Counter_serialize(c) ELSE FormatCount(Counter_estimate(c))

\* Every key is followed by both forms of its counter, on two lines.
print_dict_twice(t, raw) ==
    {[lines |-> {key \o <<32>> \o print_single(t[key], r) :
                    key \in DOMAIN t, r \in BOOLEAN},
      panicked |-> FALSE]}

\* print_dict: one line per key, in the table's iteration order, which is
\* arbitrary: the output is a set of lines. A key that is not UTF-8 panics
\* before anything of its line is printed; the lines of the keys iterated
\* before it are out by then.
print_dict(t, raw) ==
    LET good == {key \in DOMAIN t : IsUtf8(key)}
    IN  IF good = DOMAIN t
        THEN {[lines |-> {key \o <<32>> \o print_single(t[key], raw) : key \in good},
               panicked |-> FALSE]}
        ELSE {[lines |-> {key \o <<32>> \o print_single(t[key], raw) : key \in ks},
               panicked |-> TRUE] : ks \in SUBSET good}

\* main, after reduce_stream returned: what the run prints in the mode given
\* by --key and --merge, from the reducers of the state. Each outcome is the
\* set of lines printed and whether the printing panicked.
main_output(key, merge, raw) ==
    IF key /\ ~merge THEN print_dict(kwhole, raw)
    ELSE IF ~key /\ ~merge
    THEN {[lines |-> {print_single(whole, raw)}, panicked |-> FALSE]}
    ELSE IF key /\ merge THEN print_dict(KeyedMerger_state(kmerger), raw)
    ELSE {[lines |-> {print_single(Merger_counter(merger), raw)},
           panicked |-> FALSE]}

RECURSIVE SeqOf(_)
SeqOf(S) ==
    IF S = {} THEN <<>>
    ELSE LET x == CHOOSE y \in S : TRUE IN <<x>> \o SeqOf(S \ {x})

RemoveAt(s, i) == SubSeq(s, 1, i - 1) \o SubSeq(s, i + 1, Len(s))

\* What one mapper run with --raw may print for group g.
GroupOutput(g) ==
    IF mode = "plain"
    THEN {[lines |-> {print_single(parts[g], TRUE)}, panicked |-> FALSE]}
    ELSE print_dict(kparts[g], TRUE)

\* The key and the value of a keyed line, read off the line itself: the key
\* is the longest prefix free of spaces, the value what follows the space
\* that ends it.
NoSpace(line) == \A i \in 1..Len(line) : line[i] # 32
KeyOfLine(line) ==
    LET n == CHOOSE n \in 0..Len(line) :
                /\ \A i \in 1..n : line[i] # 32
                /\ n < Len(line) => line[n + 1] = 32
    IN  SubSeq(line, 1, n)
ValueOfLine(line) == SubSeq(line, Len(KeyOfLine(line)) + 2, Len(line))

InitReduce ==
    /\ mode \in {"plain", "keyed"}
    /\ phase = "map" /\ op = "none" /\ lastLine = <<>> /\ nread = 0
    /\ whole = Counter_default
    /\ parts = [g \in Groups |-> Counter_default]
    /\ kwhole = EmptyFn
    /\ kparts = [g \in Groups |-> EmptyFn]
    /\ proj = EmptyFn
    /\ pending = <<>>
    /\ merger = Merger_default
    /\ kmerger = EmptyFn
    /\ foreign = FALSE /\ panicked = FALSE
    /\ heap = EmptyFn /\ sk = [i \in SketchIds |-> NoSketch]
    /\ fault = "none" /\ cbAddr = 0
    /\ seen = NoSeen
    /\ InitDeserIdle
    /\ InitAlgIdle
    /\ InitCliIdle
    /\ InitMoreIdle

\* reduce_stream hands one more line to the reducer of the whole stream and
\* to the reducer of the group the line falls in.
ReadLine(line, g) ==
    /\ phase = "map" /\ ~panicked /\ nread < MaxLines
    /\ IF mode = "plain"
       THEN /\ whole' = Counter_read_line(whole, line)
            /\ parts' = [parts EXCEPT ![g] = Counter_read_line(@, line)]
            /\ panicked' = FALSE
            /\ UNCHANGED <<kwhole, kparts, proj>>
       ELSE LET r == KeyedCounter_read_line(kwhole, line)
                rg == KeyedCounter_read_line(kparts[g], line)
                key == KeyOfLine(line)
                old == IF key \in DOMAIN proj THEN proj[key] ELSE Counter_default
            IN  /\ kwhole' = r.t
                /\ kparts' = [kparts EXCEPT ![g] = rg.t]
                /\ panicked' = (r.panicked \/ rg.panicked)
                /\ proj' = IF NoSpace(line) THEN proj
                           ELSE Put(proj, key, Counter_read_line(old, ValueOfLine(line)))
                /\ UNCHANGED <<whole, parts>>
    /\ op' = "read" /\ lastLine' = line /\ nread' = nread + 1
    /\ UNCHANGED <<mode, phase, pending, merger, kmerger, foreign, hhVars, deserVars, algVars, cliVars, moreVars>>

\* End of input: every mapper prints its raw output, which becomes the input
\* of the merging run. A mapper that panics while printing ends the pipeline.
Emit ==
    /\ phase = "map" /\ ~panicked
    /\ phase' = "merge"
    /\ \E o1 \in GroupOutput(1), o2 \in GroupOutput(2) :
        /\ ~o1.panicked /\ ~o2.panicked
        /\ pending' = SeqOf(o1.lines) \o SeqOf(o2.lines)
    /\ op' = "emit"
    /\ UNCHANGED <<mode, lastLine, nread, whole, parts, kwhole, kparts, proj,
                   merger, kmerger, foreign, panicked, hhVars, deserVars, algVars, cliVars, moreVars>>

\* The merging reducer reads line.
Feed(line) ==
    /\ IF mode = "plain"
       THEN LET r == Merger_read_line(merger, line)
            IN  merger' = r.m /\ panicked' = r.panicked /\ UNCHANGED kmerger
       ELSE LET r == KeyedMerger_read_line(kmerger, line)
            IN  kmerger' = r.t /\ panicked' = r.panicked /\ UNCHANGED merger
    /\ op' = "merge" /\ lastLine' = line
    /\ UNCHANGED <<mode, phase, nread, whole, parts, kwhole, kparts, proj,
                   hhVars, deserVars, algVars, cliVars, moreVars>>

\* One of the mappers' lines, in any order.
MergeLine(i) ==
    /\ phase = "merge" /\ ~panicked
    /\ i \in 1..Len(pending)
    /\ Feed(pending[i])
    /\ pending' = RemoveAt(pending, i)
    /\ UNCHANGED foreign

\* A line that did not come from a mapper.
MergeForeign(line) ==
    /\ phase = "merge" /\ ~panicked /\ ~foreign
    /\ Feed(line)
    /\ foreign' = TRUE
    /\ UNCHANGED pending

NextReduce ==
    \/ \E line \in Lines, g \in Groups : ReadLine(line, g)
    \/ Emit
    \/ \E i \in 1..Len(pending) : MergeLine(i)
    \/ \E line \in ForeignLines : MergeForeign(line)

SpecReduce == InitReduce /\ [][NextReduce]_vars

\* ------------------------------------------------------- deserialization

DeserKinds == {"cpc", "theta", "hll", "kll_float", "kll_double", "counter"}

\* Bytes an input is drawn from: family bytes, small lengths, the byte of the
\* repository's own error test (9) and the base64 symbols 'A' and 'E'.
DeserBytes == {0, 1, 3, 7, 9, 15, 16, 65, 69}

RECURSIVE SeqsUpTo(_, _)
SeqsUpTo(S, n) ==
    IF n = 0 THEN {<<>>}
    ELSE LET shorter == SeqsUpTo(S, n - 1)
         IN  shorter \cup {Append(s, x) : s \in shorter, x \in S}

FamilyId(kind) ==
    CASE kind = "cpc" -> 16
      [] kind = "theta" -> 3
      [] kind = "hll" -> 7
      [] OTHER -> 15

\* Whether the engine of the kind takes buf as a serialized sketch; it throws
\* otherwise. Outside CPC an image is a family byte, a payload length and
\* the payload.
EngineAccepts(kind, buf) ==
    IF kind = "cpc" THEN deserialize_opaque_cpc_sketch(buf).ok
    ELSE Len(buf) >= 2 /\ buf[1] = FamilyId(kind) /\ buf[2] = Len(buf) - 2

\* The bridge function returns a Result and the wrapper passes the error on.
StaticThetaSketch_deserialize(buf) ==
    IF EngineAccepts("theta", buf) THEN "ok" ELSE "err"

KllFloatSketch_deserialize(buf) ==
    IF EngineAccepts("kll_float", buf) THEN "ok" ELSE "err"

KllDoubleSketch_deserialize(buf) ==
    IF EngineAccepts("kll_double", buf) THEN "ok" ELSE "err"

\* HLLSketch::deserialize returns Self: there is no error to return, and the
\* engine's exception terminates the program.
HLLSketch_deserialize(buf) ==
    IF EngineAccepts("hll", buf) THEN "ok" ELSE "abort"

DeserializeOutcome(kind, buf) ==
    CASE kind = "cpc" -> IF CpcSketch_deserialize(buf).ok THEN "ok" ELSE "err"
      [] kind = "theta" -> StaticThetaSketch_deserialize(buf)
      [] kind = "hll" -> HLLSketch_deserialize(buf)
      [] kind = "kll_float" -> KllFloatSketch_deserialize(buf)
      [] kind = "kll_double" -> KllDoubleSketch_deserialize(buf)
      [] OTHER -> IF Counter_deserialize(buf).ok THEN "ok" ELSE "err"

InitDeser ==
    /\ InitDeserIdle
    /\ InitAlgIdle
    /\ InitCliIdle
    /\ InitMoreIdle
    /\ InitRedIdle
    /\ heap = EmptyFn /\ sk = [i \in SketchIds |-> NoSketch]
    /\ fault = "none" /\ cbAddr = 0
    /\ seen = NoSeen

\* The program calls deserialize of some kind on some input, once in a run.
Deserialize(kind, buf) ==
    /\ deserKind = "none"
    /\ deserKind' = kind
    /\ deserInput' = buf
    /\ deserResult' = DeserializeOutcome(kind, buf)
    /\ UNCHANGED <<hhVars, redVars, algVars, cliVars, moreVars>>

NextDeser ==
    \E kind \in DeserKinds, buf \in SeqsUpTo(DeserBytes, MaxDeserLen) :
        Deserialize(kind, buf)

SpecDeser == InitDeser /\ [][NextDeser]_vars

\* ------------------------------------------- unions and intersections

MaxSnaps == 2
MaxIxMerges == 2

\* The values handles are built from, and the ids of engine objects.
AlgValues == {<<97>>, <<98>>, <<99>>}
IxValues == {<<97>>, <<98>>}
ObjIds == 1..(Cardinality(UnionIds) + MaxSnaps)

\* A CpcSketch built by CpcSketch::new and one update per value.
RECURSIVE CpcSketch_of(_)
CpcSketch_of(vals) ==
    IF vals = {} THEN CpcSketch_new
    ELSE LET v == CHOOSE x \in vals : TRUE
         IN  CpcSketch_update(CpcSketch_of(vals \ {v}), v)

\* A handle that is the accumulator itself instead of a copy of it.
CpcUnion_sketch_shared(os, u) == {[objs |-> os, id |-> u]}

\* CpcUnion::sketch(&self) -> CpcSketch: the engine copies the accumulator
\* into a new object and the returned handle owns that object.
CpcUnion_sketch_owned(os, u) ==
    {[objs |-> Put(os, n, CpcUnion_sketch(os[u])), id |-> n] :
        n \in ObjIds \ DOMAIN os}

\* CpcUnion::merge(&mut self, sketch): the handle is moved into the call,
\* its object is absorbed and then destroyed.
CpcUnion_merge_owned(os, u, h) ==
    Del([os EXCEPT ![u] = CpcUnion_merge(@, os[h])], {h})

\* --- theta engine: the set of coupons of the values seen
new_opaque_theta_sketch == {}
OpaqueThetaSketch_update(s, value) == s \cup {Hash(value)}
OpaqueThetaSketch_as_static(s) == s
OpaqueStaticThetaSketch_estimate(s) == Cardinality(s)

\* The intersection holds no result until the first intersect_with; its
\* sketch() is a null pointer until then.
new_opaque_theta_intersection == [valid |-> FALSE, retained |-> {}]
OpaqueThetaIntersection_intersect_with(x, s) ==
    [valid |-> TRUE, retained |-> IF x.valid THEN x.retained \cap s ELSE s]
OpaqueThetaIntersection_sketch(x) ==
    IF x.valid THEN [null |-> FALSE, sketch |-> x.retained]
    ELSE [null |-> TRUE, sketch |-> {}]

\* --- theta wrappers
ThetaSketch_new == new_opaque_theta_sketch
ThetaSketch_update(s, value) == OpaqueThetaSketch_update(s, value)
ThetaSketch_as_static(s) == OpaqueThetaSketch_as_static(s)
StaticThetaSketch_estimate(s) == OpaqueStaticThetaSketch_estimate(s)

RECURSIVE StaticThetaSketch_of(_)
StaticThetaSketch_of(vals) ==
    IF vals = {} THEN ThetaSketch_as_static(ThetaSketch_new)
    ELSE LET v == CHOOSE x \in vals : TRUE
         IN  ThetaSketch_update(StaticThetaSketch_of(vals \ {v}), v)

ThetaIntersection_new == new_opaque_theta_intersection
ThetaIntersection_merge(x, sketch) ==
    OpaqueThetaIntersection_intersect_with(x, sketch)

NoneSketch == [some |-> FALSE, sketch |-> {}]

\* The pointer the engine returned is wrapped without looking at it.
ThetaIntersection_sketch_unchecked(x) ==
    [some |-> TRUE, sketch |-> OpaqueThetaIntersection_sketch(x).sketch]

\* sketch(&self) -> Option<StaticThetaSketch>
ThetaIntersection_sketch(x) ==
    LET inner == OpaqueThetaIntersection_sketch(x)
        valid == ~inner.null
    IN  IF valid THEN [some |-> TRUE, sketch |-> inner.sketch] ELSE NoneSketch

InitAlgebra ==
    /\ objs = [u \in UnionIds |-> CpcUnion_new]
    /\ snaps = {}
    /\ got = [u \in UnionIds |-> {}]
    /\ ix = ThetaIntersection_new
    /\ ixMerges = 0
    /\ heap = EmptyFn /\ sk = [i \in SketchIds |-> NoSketch]
    /\ fault = "none" /\ cbAddr = 0 /\ seen = NoSeen
    /\ InitRedIdle
    /\ InitDeserIdle
    /\ InitCliIdle
    /\ InitMoreIdle

\* union.merge(sketch) with a handle built from vals
Absorb(u, vals) ==
    /\ u \in DOMAIN objs
    /\ objs' = [objs EXCEPT ![u] = CpcUnion_merge(@, CpcSketch_of(vals))]
    /\ got' = [got EXCEPT ![u] = @ \cup vals]
    /\ UNCHANGED <<snaps, ix, ixMerges, hhVars, redVars, deserVars, cliVars, moreVars>>

\* let s = union.sketch()
Snapshot(u) ==
    /\ u \in DOMAIN objs
    /\ Cardinality(snaps) < MaxSnaps
    /\ \E o \in CpcUnion_sketch_owned(objs, u) :
        /\ objs' = o.objs
        /\ snaps' = snaps \cup {[id |-> o.id,
                                 est |-> CpcSketch_estimate(o.objs[o.id]),
                                 got |-> got[u]]}
    /\ UNCHANGED <<got, ix, ixMerges, hhVars, redVars, deserVars, cliVars, moreVars>>

\* union.merge(s) with a snapshot s taken earlier
MergeSnapshot(u, s) ==
    /\ u \in DOMAIN objs
    /\ s.id \in DOMAIN objs
    /\ objs' = CpcUnion_merge_owned(objs, u, s.id)
    /\ snaps' = snaps \ {s}
    /\ got' = [got EXCEPT ![u] = @ \cup s.got]
    /\ UNCHANGED <<ix, ixMerges, hhVars, redVars, deserVars, cliVars, moreVars>>

\* intersection.merge(theta.as_static()) with a sketch built from vals
Intersect(vals) ==
    /\ ixMerges < MaxIxMerges
    /\ ix' = ThetaIntersection_merge(ix, StaticThetaSketch_of(vals))
    /\ ixMerges' = ixMerges + 1
    /\ UNCHANGED <<objs, snaps, got, hhVars, redVars, deserVars, cliVars, moreVars>>

NextAlgebra ==
    \/ \E u \in UnionIds, vals \in SUBSET AlgValues : Absorb(u, vals)
    \/ \E u \in UnionIds : Snapshot(u)
    \/ \E u \in UnionIds, s \in snaps : MergeSnapshot(u, s)
    \/ \E vals \in SUBSET IxValues : Intersect(vals)

SpecAlgebra == InitAlgebra /\ [][NextAlgebra]_vars

\* ------------------------------------------------- HeavyHitter sizing

MaxK == 64

\* u64::leading_zeros
num_bits == 64
RECURSIVE BitLength(_)
BitLength(x) == IF x = 0 THEN 0 ELSE 1 + BitLength(x \div 2)
leading_zeros(x) == num_bits - BitLength(x)

\* fn log2_floor(x: u64) -> usize; assert!(x > 0)
log2_floor(x) ==
    IF x > 0 THEN [panicked |-> FALSE, v |-> num_bits - leading_zeros(x) - 1]
    ELSE [panicked |-> TRUE, v |-> 0]

Max(a, b) == IF a >= b THEN a ELSE b

\* The sketch is sized from the logarithm as it is, also for k = 1.
HeavyHitter_new_unclamped(k) ==
    LET l == log2_floor(k)
    IN  IF l.panicked THEN [panicked |-> TRUE, sketch |-> NoSketch, k |-> k]
        ELSE [panicked |-> FALSE, sketch |-> HhSketch_new(l.v + 2), k |-> k]

\* HeavyHitter::new(k)
HeavyHitter_new(k) ==
    LET l == log2_floor(k)
        lg2_k_with_room == Max(l.v, 1) + 2
    IN  IF l.panicked THEN [panicked |-> TRUE, sketch |-> NoSketch, k |-> k]
        ELSE [panicked |-> FALSE, sketch |-> HhSketch_new(lg2_k_with_room),
              k |-> k]

\* `dsrs --hh k` with any k the option accepts.
InitSizing ==
    /\ topk \in 0..MaxK
    /\ hhLg2k = 0
    /\ srcLines = <<>> /\ ends = <<>> /\ rest = <<>>
    /\ delivered = <<>> /\ returned = FALSE
    /\ heap = EmptyFn /\ sk = [i \in SketchIds |-> NoSketch]
    /\ fault = "none" /\ cbAddr = 0 /\ seen = NoSeen
    /\ InitRedIdle
    /\ InitDeserIdle
    /\ InitAlgIdle
    /\ InitMoreIdle

\* HeavyHitter::new(k); hhLg2k is -1 when it panicked.
NewHeavyHitter ==
    /\ hhLg2k = 0
    /\ LET r == HeavyHitter_new(topk)
       IN  hhLg2k' = IF r.panicked THEN -1 ELSE r.sketch.lg2_k
    /\ UNCHANGED <<topk, srcLines, ends, rest, delivered, returned,
                   hhVars, redVars, deserVars, algVars, moreVars>>

NextSizing == NewHeavyHitter

SpecSizing == InitSizing /\ [][NextSizing]_vars

\* ------------------------------------------------------ reduce_stream

MaxStreamLines == 2
MaxLineLen == 2

LF == 10
CR == 13

\* The bytes a line is made of: a letter and a carriage return.
LineBytes == {97, CR}
LineContents == UNION {[1..n -> LineBytes] : n \in 0..MaxLineLen}
Endings == {"unix", "dos"}

Terminator(e) == IF e = "dos" THEN <<CR, LF>> ELSE <<LF>>

\* The file made of the lines ls, line i followed by the terminator es[i].
RECURSIVE StreamOf(_, _)
StreamOf(ls, es) ==
    IF ls = <<>> THEN <<>>
    ELSE Head(ls) \o Terminator(Head(es)) \o StreamOf(Tail(ls), Tail(es))

\* bstr: a line without its terminator; the terminator is \n or \r\n.
trim_line(raw) ==
    LET n == Len(raw)
        a == IF n > 0 /\ raw[n] = LF THEN SubSeq(raw, 1, n - 1) ELSE raw
        m == Len(a)
    IN  IF n > 0 /\ raw[n] = LF /\ m > 0 /\ a[m] = CR
        THEN SubSeq(a, 1, m - 1) ELSE a

\* bstr for_byte_line, one iteration: the bytes up to and including the next
\* \n (or up to the end of the stream), trimmed, and what follows them.
for_byte_line_next(bytes) ==
    LET lfs == {i \in 1..Len(bytes) : bytes[i] = LF}
        n == IF lfs = {} THEN Len(bytes)
             ELSE CHOOSE i \in lfs : \A j \in lfs : i <= j
    IN  [line |-> trim_line(SubSeq(bytes, 1, n)),
         rest |-> SubSeq(bytes, n + 1, Len(bytes))]

\* A LineReducer whose state is the sequence of the lines it was given.
LineReducer_read_line(reader, line) == Append(reader, line)

\* The iteration is told to stop after the line.
reduce_stream_closure_once(reader, line) ==
    [reader |-> LineReducer_read_line(reader, line), continue |-> FALSE]

\* |line| { line_reader.read_line(line); Ok(true) }
reduce_stream_closure(reader, line) ==
    [reader |-> LineReducer_read_line(reader, line), continue |-> TRUE]

\* reduce_stream(stream, line_reader) as a function of the whole stream
RECURSIVE reduce_stream(_, _)
reduce_stream(stream, line_reader) ==
    IF stream = <<>> THEN line_reader
    ELSE LET n == for_byte_line_next(stream)
             c == reduce_stream_closure(line_reader, n.line)
         IN  IF c.continue THEN reduce_stream(n.rest, c.reader) ELSE c.reader

InitStream ==
    /\ \E n \in 0..MaxStreamLines :
        /\ srcLines \in [1..n -> LineContents]
        /\ ends \in [1..n -> Endings]
    /\ rest = StreamOf(srcLines, ends)
    /\ delivered = <<>>
    /\ returned = FALSE
    /\ topk = 0 /\ hhLg2k = 0
    /\ heap = EmptyFn /\ sk = [i \in SketchIds |-> NoSketch]
    /\ fault = "none" /\ cbAddr = 0 /\ seen = NoSeen
    /\ InitRedIdle
    /\ InitDeserIdle
    /\ InitAlgIdle
    /\ InitMoreIdle

\* One iteration of for_byte_line: the closure is called with the next line.
DeliverLine ==
    /\ ~returned
    /\ rest # <<>>
    /\ LET n == for_byte_line_next(rest)
           c == reduce_stream_closure(delivered, n.line)
       IN  /\ delivered' = c.reader
           /\ rest' = n.rest
           /\ returned' = ~c.continue
    /\ UNCHANGED <<topk, hhLg2k, srcLines, ends,
                   hhVars, redVars, deserVars, algVars, moreVars>>

\* End of stream: for_byte_line returns and reduce_stream hands back the reducer.
ReturnReducer ==
    /\ ~returned
    /\ rest = <<>>
    /\ returned' = TRUE
    /\ UNCHANGED <<topk, hhLg2k, srcLines, ends, rest, delivered,
                   hhVars, redVars, deserVars, algVars, moreVars>>

NextStream == DeliverLine \/ ReturnReducer

SpecStream == InitStream /\ [][NextStream]_vars

\* --------------------------------------- one sketch: updates and queries

\* A variant of the no-false-negatives query that hands the rows over and
\* empties the engine's table.
HhSketch_query_no_fn_draining(h, s) ==
    [heap |-> h, s |-> [s EXCEPT !.counts = EmptyFn], rows |-> estimate_no_fn(h, s)]

\* A call of estimate_no_fn(&self): the heap and the sketch after the call,
\* and the rows returned.
HhSketch_query_no_fn(h, s) ==
    [heap |-> h, s |-> s, rows |-> estimate_no_fn(h, s)]

\* A call of estimate_no_fp(&self).
HhSketch_query_no_fp(h, s) ==
    [heap |-> h, s |-> s, rows |-> estimate_no_fp(h, s)]

\* A call of CpcSketch::estimate(&self): the handle after the call and the
\* number returned.
CpcSketch_query(c) == [c |-> c, est |-> CpcSketch_estimate(c)]

\* A variant of `hh.merge(&hh.clone())` that merges the sketch into its
\* clone and keeps the original.
merge_with_clone_into_temp(h, self) ==
    UNION {IF c.fault # "none" THEN {c}
           ELSE {LET d == HhSketch_drop(o.heap, o.s)
                 IN  [heap |-> d.heap, s |-> self, fault |-> d.fault]
                 : o \in HhSketch_merge(c.heap, c.s, self)}
           : c \in HhSketch_clone(h, self)}

\* `hh.merge(&hh.clone())`: the clone is built, merged into the sketch, and
\* dropped at the end of the statement.
merge_with_clone(h, self) ==
    UNION {IF c.fault # "none" THEN {c}
           ELSE UNION {IF o.fault # "none" THEN {o}
                       ELSE {LET d == HhSketch_drop(o.heap, c.s)
                             IN  [heap |-> d.heap, s |-> o.s, fault |-> d.fault]}
                       : o \in HhSketch_merge(c.heap, self, c.s)}
           : c \in HhSketch_clone(h, self)}

InitRetain == InitHh

RetainNew(lg2_k) ==
    /\ fault = "none"
    /\ ~sk[1].alive
    /\ sk' = [sk EXCEPT ![1] = HhSketch_new(lg2_k)]
    /\ observed' = {}
    /\ lastQuery' = NoQuery
    /\ UNCHANGED <<heap, fault, cbAddr, seen, redVars, deserVars, algVars, cliVars,
                   kll, env, envResult, hhr, fed>>

RetainUpdate(value, weight) ==
    /\ fault = "none"
    /\ sk[1].alive
    /\ sk[1].total_weight + weight <= MaxTotalWeight
    /\ \E o \in HhSketch_update(heap, sk[1], value, weight) :
        /\ heap' = o.heap
        /\ sk' = [sk EXCEPT ![1] = o.s]
        /\ fault' = o.fault
    /\ seen' = [seen EXCEPT ![1][value] = @ + weight]
    /\ observed' = observed \cup {value}
    /\ lastQuery' = [NoQuery EXCEPT !.kind = "update"]
    /\ UNCHANGED <<cbAddr, redVars, deserVars, algVars, cliVars,
                   kll, env, envResult, hhr, fed>>

MergeWithClone ==
    /\ fault = "none"
    /\ sk[1].alive
    /\ 2 * sk[1].total_weight <= MaxTotalWeight
    /\ \E o \in merge_with_clone(heap, sk[1]) :
        /\ heap' = o.heap
        /\ sk' = [sk EXCEPT ![1] = o.s]
        /\ fault' = o.fault
    /\ seen' = [seen EXCEPT ![1] = [k \in HhKeys |-> 2 * seen[1][k]]]
    /\ lastQuery' = [NoQuery EXCEPT !.kind = "merge_clone"]
    /\ UNCHANGED <<cbAddr, redVars, deserVars, algVars, cliVars,
                   observed, kll, env, envResult, hhr, fed>>

QueryNoFn ==
    /\ fault = "none"
    /\ sk[1].alive
    /\ LET q == HhSketch_query_no_fn(heap, sk[1])
       IN  /\ heap' = q.heap
           /\ sk' = [sk EXCEPT ![1] = q.s]
           /\ lastQuery' = [kind |-> "estimate_no_fn", rows |-> q.rows, est |-> 0]
    /\ UNCHANGED <<fault, cbAddr, seen, redVars, deserVars, algVars, cliVars,
                   observed, kll, env, envResult, hhr, fed>>

QueryNoFp ==
    /\ fault = "none"
    /\ sk[1].alive
    /\ LET q == HhSketch_query_no_fp(heap, sk[1])
       IN  /\ heap' = q.heap
           /\ sk' = [sk EXCEPT ![1] = q.s]
           /\ lastQuery' = [kind |-> "estimate_no_fp", rows |-> q.rows, est |-> 0]
    /\ UNCHANGED <<fault, cbAddr, seen, redVars, deserVars, algVars, cliVars,
                   observed, kll, env, envResult, hhr, fed>>

\* The distinct-count handle of the same run reads a line.
RetainCount(value) ==
    /\ fault = "none"
    /\ whole' = CpcSketch_update(whole, value)
    /\ lastQuery' = [NoQuery EXCEPT !.kind = "update"]
    /\ UNCHANGED <<hhVars, mode, phase, op, lastLine, nread, parts, kwhole, kparts,
                   proj, pending, merger, kmerger, foreign, panicked,
                   deserVars, algVars, cliVars,
                   observed, kll, env, envResult, hhr, fed>>

QueryEstimate ==
    /\ fault = "none"
    /\ LET q == CpcSketch_query(whole)
       IN  /\ whole' = q.c
           /\ lastQuery' = [kind |-> "estimate", rows |-> {}, est |-> q.est]
    /\ UNCHANGED <<hhVars, mode, phase, op, lastLine, nread, parts, kwhole, kparts,
                   proj, pending, merger, kmerger, foreign, panicked,
                   deserVars, algVars, cliVars,
                   observed, kll, env, envResult, hhr, fed>>

NextRetain ==
    \/ \E l \in LgKs : RetainNew(l)
    \/ \E v \in HhKeys, w \in Weights : RetainUpdate(v, w)
    \/ MergeWithClone
    \/ QueryNoFn
    \/ QueryNoFp
    \/ \E v \in HhKeys : RetainCount(v)
    \/ QueryEstimate

SpecRetain == InitRetain /\ [][NextRetain]_vars

\* ------------------------------------------------------ quantiles (kll)

DefaultK == 200
KllKs == {100, DefaultK}
KllValues == {1, 2}

Min(a, b) == IF a <= b THEN a ELSE b

\* --- the native engine: k, the stream length, the least and greatest value
new_opaque_kll_float_sketch_with_k(k) ==
    [alive |-> TRUE, k |-> k, n |-> 0, min |-> <<>>, max |-> <<>>]

new_opaque_kll_float_sketch == new_opaque_kll_float_sketch_with_k(DefaultK)

kll_float_update(s, value) ==
    [s EXCEPT !.n = s.n + 1,
              !.min = IF s.n = 0 THEN <<value>> ELSE <<Min(s.min[1], value)>>,
              !.max = IF s.n = 0 THEN <<value>> ELSE <<Max(s.max[1], value)>>]

kll_float_merge(s, other) ==
    IF other.n = 0 THEN s
    ELSE [s EXCEPT !.n = s.n + other.n,
                   !.min = IF s.n = 0 THEN other.min ELSE <<Min(s.min[1], other.min[1])>>,
                   !.max = IF s.n = 0 THEN other.max ELSE <<Max(s.max[1], other.max[1])>>]

\* Wire format: family byte, payload length, then k, n and the two extremes.
kll_float_serialize(s) ==
    LET payload == <<s.k, s.n>> \o s.min \o s.max
    IN  <<FamilyId("kll_float"), Len(payload)>> \o payload

\* The sketch an accepted image stands for.
deserialize_opaque_kll_float_sketch(buf) ==
    [alive |-> TRUE,
     k |-> IF Len(buf) >= 3 THEN buf[3] ELSE DefaultK,
     n |-> IF Len(buf) >= 4 THEN buf[4] ELSE 0,
     min |-> IF Len(buf) >= 6 THEN <<buf[5]>> ELSE <<>>,
     max |-> IF Len(buf) >= 6 THEN <<buf[6]>> ELSE <<>>]

\* --- kll.rs: the wrapper
KllFloatSketch_new == new_opaque_kll_float_sketch
KllFloatSketch_with_k(k) == new_opaque_kll_float_sketch_with_k(k)
KllFloatSketch_update(s, value) == kll_float_update(s, value)

\* A variant of merge that merges the sketch with itself.
KllFloatSketch_merge_self(self, other) ==
    [self |-> kll_float_merge(self, self), other |-> other]

\* KllFloatSketch::merge(&mut self, other: &KllFloatSketch): both sketches
\* after the call.
KllFloatSketch_merge(self, other) ==
    [self |-> kll_float_merge(self, other), other |-> other]

KllFloatSketch_get_k(s) == s.k
KllFloatSketch_get_n(s) == s.n
KllFloatSketch_is_empty(s) == s.n = 0
KllFloatSketch_get_min_value(s) == s.min
KllFloatSketch_get_max_value(s) == s.max
KllFloatSketch_serialize(s) == kll_float_serialize(s)

\* SketchData::from_sketch
SketchData_from_sketch(s) ==
    [sketch_type |-> "kll", version |-> "1.0",
     k |-> KllFloatSketch_get_k(s), n |-> KllFloatSketch_get_n(s),
     serialized_sketch |-> KllFloatSketch_serialize(s),
     value_type |-> "f32"]

\* rmp_serde::to_vec of a SketchData: the fields in declaration order.
rmp_to_vec(d) ==
    <<d.sketch_type, d.version, d.k, d.n, d.serialized_sketch, d.value_type>>

\* rmp_serde::from_slice::<SketchData>: an error unless the buffer holds the
\* six fields.
rmp_from_slice(buf) ==
    IF Len(buf) = 6
    THEN [ok |-> TRUE,
          data |-> [sketch_type |-> buf[1], version |-> buf[2], k |-> buf[3],
                    n |-> buf[4], serialized_sketch |-> buf[5], value_type |-> buf[6]]]
    ELSE [ok |-> FALSE, data |-> SketchData_from_sketch(NoKll)]

\* KllFloatSketch::to_msgpack
KllFloatSketch_to_msgpack(s) == rmp_to_vec(SketchData_from_sketch(s))

\* The built sketch when the image is accepted, an error otherwise.
KllFloatSketch_deserialize_sketch(buf) ==
    IF KllFloatSketch_deserialize(buf) = "ok"
    THEN [status |-> "ok", sketch |-> deserialize_opaque_kll_float_sketch(buf)]
    ELSE [status |-> "err", sketch |-> NoKll]

\* KllFloatSketch::from_msgpack: decode the envelope, then deserialize the
\* bytes it carries; either error is returned to the caller.
KllFloatSketch_from_msgpack(buf) ==
    LET sketch_data == rmp_from_slice(buf)
    IN  IF ~sketch_data.ok
        THEN [status |-> "err", sketch |-> NoKll]
        ELSE KllFloatSketch_deserialize_sketch(sketch_data.data.serialized_sketch)

\* An envelope as another writer may produce it: the envelope of sketch s
\* with one field changed, or a buffer that is no envelope.
EnvelopeFields ==
    {"none", "sketch_type", "version", "k", "n", "value_type", "serialized_sketch", "all"}

ForeignEnvelopeOf(s, field) ==
    LET d == SketchData_from_sketch(s)
    IN  CASE field = "none" -> rmp_to_vec(d)
          [] field = "sketch_type" -> rmp_to_vec([d EXCEPT !.sketch_type = "hll"])
          [] field = "version" -> rmp_to_vec([d EXCEPT !.version = "2.0"])
          [] field = "k" -> rmp_to_vec([d EXCEPT !.k = d.k + 1])
          [] field = "n" -> rmp_to_vec([d EXCEPT !.n = d.n + 1])
          [] field = "value_type" -> rmp_to_vec([d EXCEPT !.value_type = "f64"])
          [] field = "serialized_sketch" -> rmp_to_vec([d EXCEPT !.serialized_sketch = <<>>])
          [] OTHER -> <<"kll">>

InitKll ==
    /\ InitHh

KllNew(i, k) ==
    /\ ~kll[i].alive
    /\ kll' = [kll EXCEPT ![i] = IF k = DefaultK THEN KllFloatSketch_new
                                 ELSE KllFloatSketch_with_k(k)]
    /\ lastQuery' = [kind |-> "kll_new", rows |-> {}, est |-> i]
    /\ UNCHANGED <<hhVars, redVars, deserVars, algVars, cliVars,
                   observed, env, envResult, hhr, fed>>

KllUpdate(i, value) ==
    /\ kll[i].alive
    /\ kll[i].n < MaxKllN
    /\ kll' = [kll EXCEPT ![i] = KllFloatSketch_update(kll[i], value)]
    /\ lastQuery' = [kind |-> "kll_update", rows |-> {}, est |-> i]
    /\ UNCHANGED <<hhVars, redVars, deserVars, algVars, cliVars,
                   observed, env, envResult, hhr, fed>>

KllMerge(i, j) ==
    /\ i # j
    /\ kll[i].alive /\ kll[j].alive
    /\ kll[i].n + kll[j].n <= MaxKllN
    /\ LET r == KllFloatSketch_merge(kll[i], kll[j])
       IN  kll' = [kll EXCEPT ![i] = r.self, ![j] = r.other]
    /\ lastQuery' = [kind |-> "kll_merge", rows |-> {}, est |-> i]
    /\ UNCHANGED <<hhVars, redVars, deserVars, algVars, cliVars,
                   observed, env, envResult, hhr, fed>>

\* An envelope arrives: written by to_msgpack from a sketch of the run, or
\* by another writer.
ReceiveEnvelope(i, field) ==
    /\ env = NoEnvelope
    /\ kll[i].alive
    /\ env' = IF field = "none" THEN KllFloatSketch_to_msgpack(kll[i])
              ELSE ForeignEnvelopeOf(kll[i], field)
    /\ lastQuery' = [kind |-> "to_msgpack", rows |-> {}, est |-> i]
    /\ UNCHANGED <<hhVars, redVars, deserVars, algVars, cliVars,
                   observed, kll, envResult, hhr, fed>>

FromMsgpack ==
    /\ env # NoEnvelope
    /\ envResult.status = "none"
    /\ envResult' = KllFloatSketch_from_msgpack(env)
    /\ lastQuery' = [NoQuery EXCEPT !.kind = "from_msgpack"]
    /\ UNCHANGED <<hhVars, redVars, deserVars, algVars, cliVars,
                   observed, kll, env, hhr, fed>>

NextKll ==
    \/ \E i \in KllIds, k \in KllKs : KllNew(i, k)
    \/ \E i \in KllIds, v \in KllValues : KllUpdate(i, v)
    \/ \E i, j \in KllIds : KllMerge(i, j)
    \/ \E i \in KllIds, f \in EnvelopeFields : ReceiveEnvelope(i, f)
    \/ FromMsgpack

SpecKll == InitKll /\ [][NextKll]_vars

\* ------------------------------------------------ HeavyHitter: top k

TopKs == {1, 2}

\* The lines of the stream are the one-byte lines <<1>>, <<2>>, ...
TopLine(key) == <<key>>

\* The interning table is left out of this part: by C1 and C29 it pairs
\* every retained address with one content, and the address of the box of a
\* line is written as the line's byte.
BoxOf(line) == line[1]

\* The count the engine subtracts when it purges a table smaller than its
\* sample: the median of the counts (the upper one of two).
SampleMedian(counts) ==
    LET n == Cardinality(DOMAIN counts)
    IN  CHOOSE m \in Range(counts) :
            /\ Cardinality({a \in DOMAIN counts : counts[a] < m}) <= n \div 2
            /\ Cardinality({a \in DOMAIN counts : counts[a] <= m}) > n \div 2

\* The engine's update on the small tables of this part: of the outcomes
\* of EngineUpdate, the one whose purge subtracts the median.
EngineUpdateSmall(e, addr, weight) ==
    LET old == IF addr \in DOMAIN e.counts THEN e.counts[addr] ELSE 0
        m == SampleMedian(Put(e.counts, addr, old + weight))
    IN  {o \in EngineUpdate(e, addr, weight) :
            o.e.offset = e.offset \/ o.e.offset = e.offset + m}

\* A variant of read_line that feeds the line with weight 2.
HeavyHitter_read_line_twice(hh, line) ==
    {[hh EXCEPT !.sketch = o.e] : o \in EngineUpdateSmall(hh.sketch, BoxOf(line), 2)}

\* impl LineReducer for HeavyHitter: self.sketch.update(line, 1).
HeavyHitter_read_line(hh, line) ==
    {[hh EXCEPT !.sketch = o.e] : o \in EngineUpdateSmall(hh.sketch, BoxOf(line), 1)}

\* The rows of self.sketch.estimate_no_fn(), keys copied out.
HeavyHitter_rows(hh) ==
    {[key |-> TopLine(r.addr), lb |-> r.lb, ub |-> r.ub]
     : r \in Engine_estimate_no_fn(hh.sketch)}

\* sort_by_key(ub), rev, take(n), map to (key, ub), over a vector whose
\* order is the engine's: every sequence that takes a row of greatest ub
\* next.
RECURSIVE TakeGreatest(_, _)
TakeGreatest(rows, n) ==
    IF n = 0 \/ rows = {} THEN {<<>>}
    ELSE UNION {{<<[key |-> r.key, ub |-> r.ub]>> \o s : s \in TakeGreatest(rows \ {r}, n - 1)}
                : r \in {x \in rows : \A y \in rows : y.ub <= x.ub}}

\* A variant of estimate that pairs every key with the row's lower bound.
HeavyHitter_estimate_lb(hh) ==
    {[i \in DOMAIN s |-> [key |-> s[i].key, ub |-> s[i].ub - hh.sketch.offset]]
     : s \in TakeGreatest(HeavyHitter_rows(hh), hh.k)}

\* HeavyHitter::estimate: the possible sequences of (key, ub).
HeavyHitter_estimate(hh) == TakeGreatest(HeavyHitter_rows(hh), hh.k)

InitTopK == InitHh

NewTopK(k) ==
    /\ ~hhr.sketch.alive
    /\ hhr' = HeavyHitter_new(k)
    /\ UNCHANGED <<hhVars, redVars, deserVars, algVars, cliVars,
                   observed, lastQuery, kll, env, envResult, fed>>

\* The reducer reads a line; a line not read before is the next unused one.
ReadTopLine(key) ==
    /\ hhr.sketch.alive
    /\ hhr.sketch.total_weight < MaxTopLines
    /\ \A j \in TopKeys : j < key => fed[j] > 0
    /\ \E h \in HeavyHitter_read_line(hhr, TopLine(key)) : hhr' = h
    /\ fed' = [fed EXCEPT ![key] = @ + 1]
    /\ UNCHANGED <<hhVars, redVars, deserVars, algVars, cliVars,
                   observed, lastQuery, kll, env, envResult>>

NextTopK ==
    \/ \E k \in TopKs : NewTopK(k)
    \/ \E key \in TopKeys : ReadTopLine(key)

SpecTopK == InitTopK /\ [][NextTopK]_vars

\* ================================================================ claims

\* The rows of sketch i as the wrapper returns them.
NoFp(i) == estimate_no_fp(heap, sk[i])
NoFn(i) == estimate_no_fn(heap, sk[i])

\* C1: after any sequence of update and merge calls, every address the
\* engine retains as a key is the address of an entry that is still present
\* in the sketch's interning table and whose box has not been freed.
C1_RetainedAddressesInterned ==
    /\ fault # "ub"
    /\ \A i \in SketchIds :
        sk[i].alive =>
            \A a \in DOMAIN sk[i].counts : a \in sk[i].intern /\ a \in DOMAIN heap

\* C1 witness: two sketches retain keys, and one of them has evicted entries.
C1_Witness ==
    /\ \A i \in SketchIds : sk[i].alive /\ DOMAIN sk[i].counts # {}
    /\ \E i \in SketchIds : sk[i].offset > 0

\* C2 (as claimed): after every completed update or merge, every entry of
\* the interning table is a key the engine retains.
C2_NoLeakedKeys ==
    \A i \in SketchIds :
        sk[i].alive => sk[i].intern \subseteq DOMAIN sk[i].counts

\* C10: the rows of estimate_no_fp are a subset of the rows of
\* estimate_no_fn (same key, lower bound and upper bound).
C10_NoFpSubsetOfNoFn ==
    \A i \in SketchIds : sk[i].alive => NoFp(i) \subseteq NoFn(i)

\* C10 witness: a sketch that has purged reports a no-false-positive row, and
\* a sketch reports a row in estimate_no_fn only.
C10_Witness ==
    /\ \E i \in SketchIds : sk[i].alive /\ sk[i].offset > 0 /\ NoFp(i) # {}
    /\ \E j \in SketchIds : sk[j].alive /\ NoFp(j) # NoFn(j)

\* C9: a removal callback for an address whose content is not in the table
\* aborts and leaves the table as it was; a callback that returns normally
\* has removed exactly one entry, the one with the content behind the address.
C9_CallbackRemovesOrAborts ==
    [][LET a == cbAddr'
           present == \E b \in sk[1].intern : heap[b] = heap[a]
       IN  /\ ~present =>
                 fault' = "abort" /\ sk'[1].intern = sk[1].intern /\ heap' = heap
           /\ fault' = "none" =>
                 \E b \in sk[1].intern :
                    /\ heap[b] = heap[a]
                    /\ sk'[1].intern = sk[1].intern \ {b}
                    /\ heap' = Del(heap, {b})]_vars

\* C9 witness: a callback for a live address absent from the table aborted.
C9_Witness ==
    /\ fault = "abort"
    /\ cbAddr \in DOMAIN heap
    /\ \A b \in sk[1].intern : heap[b] # heap[cbAddr]

\* The merging run has read every line the mappers wrote, and nothing else.
MergeDone == phase = "merge" /\ pending = <<>> /\ ~foreign /\ ~panicked

\* Every counter the pipeline currently holds.
AllCounters ==
    {whole} \cup {parts[g] : g \in Groups}
            \cup Range(kwhole)
            \cup UNION {Range(kparts[g]) : g \in Groups}
            \cup {Merger_counter(merger)}
            \cup Range(KeyedMerger_state(kmerger))

\* A line Merger::read_line cannot turn into a sketch.
InvalidMergerLine(line) ==
    \/ ~IsUtf8(line)
    \/ ~Base64Decode(line).ok
    \/ ~CpcSketch_deserialize(Base64Decode(line).bytes).ok

C4_KeyedCounterIsPerKeyCounter ==
    (mode = "keyed" /\ ~panicked) =>
        /\ DOMAIN kwhole = DOMAIN proj
        /\ \A key \in DOMAIN kwhole :
              /\ kwhole[key] = proj[key]
              /\ Counter_estimate(kwhole[key]) = Counter_estimate(proj[key])

\* C4 witness: two keys, one of them with two distinct values, one of which
\* contains a space.
C4_Witness ==
    /\ mode = "keyed" /\ ~panicked /\ phase = "map"
    /\ Cardinality(DOMAIN kwhole) >= 2
    /\ \E key \in DOMAIN kwhole :
          Counter_estimate(kwhole[key]) >= 2 /\ Hash(<<32>>) \in kwhole[key]

C7_NoSpaceLinePanics ==
    [][(mode = "keyed" /\ op' \in {"read", "merge"} /\ NoSpace(lastLine')) =>
          /\ panicked'
          /\ kwhole' = kwhole /\ kparts' = kparts /\ kmerger' = kmerger]_vars

\* C7 witness: a keyed merger with an entry panicked on a line without a
\* space.
C7_Witness ==
    /\ mode = "keyed" /\ panicked /\ op = "merge"
    /\ NoSpace(lastLine) /\ lastLine # <<>>
    /\ kmerger # EmptyFn

\* C8: when Merger::read_line reads a line that is not valid UTF-8, not
\* valid unpadded base64 or not a serialized sketch, the run panics and the
\* union is what it was before the line.
C8_InvalidLinePanics ==
    [][(mode = "plain" /\ op' = "merge" /\ InvalidMergerLine(lastLine')) =>
          panicked' /\ merger' = merger]_vars

\* C8 witness: a merger that had absorbed something panicked on valid
\* base64 text that is not a sketch.
C8_Witness ==
    /\ mode = "plain" /\ panicked /\ op = "merge"
    /\ merger # Merger_default
    /\ IsUtf8(lastLine) /\ Base64Decode(lastLine).ok
    /\ InvalidMergerLine(lastLine)

\* Input that is not the image of any sketch of the kind: for a Counter,
\* text that is not base64 or whose bytes the engine rejects.
StructurallyInvalid(kind, buf) ==
    IF kind = "counter"
    THEN ~Base64Decode(buf).ok \/ ~EngineAccepts("cpc", Base64Decode(buf).bytes)
    ELSE ~EngineAccepts(kind, buf)

\* C6 (as claimed): deserialize of every kind never aborts the program, and
\* on structurally invalid input it returns an error value.
C6_InvalidInputIsTypedError ==
    /\ deserResult # "abort"
    /\ (deserKind # "none" /\ StructurallyInvalid(deserKind, deserInput)) =>
          deserResult = "err"

\* C11: every row estimate_no_fn returns brackets the total weight with
\* which its key was fed to the sketch, directly or through the sketches
\* merged into it: lb <= f <= ub.
C11_BoundsContainTrueWeight ==
    \A i \in SketchIds :
        sk[i].alive =>
            \A r \in NoFn(i) : r.lb <= seen[i][r.key] /\ seen[i][r.key] <= r.ub

\* C11 witness: a sketch that has purged returns a row whose lower bound is
\* below the key's true weight.
C11_Witness ==
    \E i \in SketchIds :
        /\ sk[i].alive /\ sk[i].offset > 0
        /\ \E r \in NoFn(i) : r.lb < seen[i][r.key] /\ seen[i][r.key] <= r.ub

\* C12: a clone of a sketch, and a clone of that clone, return the same
\* estimate_no_fn rows and the same estimate_no_fp rows as the sketch.
C12_CloneKeepsRows ==
    \A i \in SketchIds :
        sk[i].alive =>
            \A c2 \in HhSketch_clone(heap, sk[i]) :
                /\ c2.fault = "none"
                /\ estimate_no_fn(c2.heap, c2.s) = NoFn(i)
                /\ estimate_no_fp(c2.heap, c2.s) = NoFp(i)
                /\ \A c3 \in HhSketch_clone(c2.heap, c2.s) :
                      /\ c3.fault = "none"
                      /\ estimate_no_fn(c3.heap, c3.s) = NoFn(i)
                      /\ estimate_no_fp(c3.heap, c3.s) = NoFp(i)

\* C12 witness: a sketch that has purged and its clone, in tables of their
\* own, with the same rows, some of them in estimate_no_fp; there is room
\* for a clone of the clone.
C12_Witness ==
    /\ sk[1].alive /\ sk[2].alive
    /\ sk[1].offset > 0 /\ NoFp(1) # {}
    /\ sk[1].intern \cap sk[2].intern = {}
    /\ NoFn(1) = NoFn(2) /\ NoFp(1) = NoFp(2)
    /\ sk[1].lg2_k = sk[2].lg2_k /\ seen[1] = seen[2]
    /\ HhSketch_clone(heap, sk[2]) # {}

\* The boxes of sketch o are where they were, with the bytes they had.
BoxesKept(o) ==
    \A a \in sk[o].intern : a \in DOMAIN heap' /\ heap'[a] = heap[a]

\* C13: live sketches, a sketch and its clone among them, never share a table
\* entry, and a step that changes one sketch (an update, a merge into it,
\* its construction as a clone, its destruction) leaves every other sketch's
\* table, boxes, engine state and estimates as they were.
C13_SketchesAreIndependent ==
    [][/\ \A i, j \in SketchIds :
             (i # j /\ sk'[i].alive /\ sk'[j].alive) =>
                 sk'[i].intern \cap sk'[j].intern = {}
       /\ \A i, o \in SketchIds :
             (i # o /\ sk'[i] # sk[i] /\ sk[o].alive) =>
                 /\ sk'[o] = sk[o]
                 /\ BoxesKept(o)
                 /\ NoFn(o)' = NoFn(o)
                 /\ NoFp(o)' = NoFp(o)]_vars

\* C13 witness: two live sketches hold the same key content in boxes of their
\* own and have since diverged.
C13_Witness ==
    /\ sk[1].alive /\ sk[2].alive
    /\ sk[1].intern \cap sk[2].intern = {}
    /\ \E a \in DOMAIN sk[1].counts, b \in DOMAIN sk[2].counts :
          a # b /\ heap[a] = heap[b]
    /\ sk[1].lg2_k = sk[2].lg2_k
    /\ NoFn(1) # NoFn(2)

\* C14: when a sketch is destroyed, every callback the dying engine issues
\* finds its key in a table that is still alive (no abort, no read of freed
\* memory); afterwards exactly the sketch's boxes are gone from the heap and
\* every other box is as it was.
C14_EngineDiesBeforeTable ==
    [][\A i \in SketchIds :
          (sk[i].alive /\ ~sk'[i].alive) =>
              /\ fault' = "none"
              /\ DOMAIN heap' = DOMAIN heap \ sk[i].intern
              /\ \A a \in DOMAIN heap' : heap'[a] = heap[a]]_vars

\* C14 witness: a sketch that had been fed keys has been destroyed without a
\* fault while another sketch lives on with its boxes.
C14_Witness ==
    /\ ~sk[1].alive /\ \E k \in HhKeys : seen[1][k] > 0
    /\ fault = "none"
    /\ sk[2].alive /\ DOMAIN sk[2].counts # {}
    /\ DOMAIN heap = sk[2].intern

\* The table entries of sketch i that its engine does not retain.
Unretained(i) == sk[i].intern \ DOMAIN sk[i].counts

\* C15: when an update or a merge into a sketch returns, every removal
\* callback its engine issued has already run on that sketch's own table:
\* no address the engine dropped is left in the table, the only entry that
\* may be new and unretained is the key of a zero-weight update, an entry
\* the engine did not hold stays unless its key was fed in this call, every
\* callback found its entry (the insert came first), and every box is owned
\* by a live table.
C15_CallbacksRunInsideTheCall ==
    [][\A i \in SketchIds :
          (sk[i].alive /\ sk'[i].alive /\ sk'[i] # sk[i]) =>
              /\ fault' = "none"
              /\ \/ Unretained(i)' \subseteq Unretained(i)
                 \/ /\ sk'[i].total_weight = sk[i].total_weight
                    /\ Cardinality(Unretained(i)' \ Unretained(i)) = 1
              /\ \A a \in Unretained(i) :
                    \/ a \in sk'[i].intern /\ heap'[a] = heap[a]
                    \/ seen'[i][heap[a]] > seen[i][heap[a]]
              /\ DOMAIN heap' = UNION {sk'[j].intern : j \in SketchIds}]_vars

\* C15 witness: a sketch purged a key it had been fed: the key's entry is
\* gone from its table, the keys it retains are all there.
C15_Witness ==
    \E i \in SketchIds :
        /\ sk[i].alive /\ sk[i].offset > 0 /\ fault = "none"
        /\ DOMAIN sk[i].counts # {} /\ sk[i].intern = DOMAIN sk[i].counts
        /\ \E k \in HhKeys :
              seen[i][k] > 0 /\ \A a \in sk[i].intern : heap[a] # k

\* C16: a snapshot of a union is a copy. A step that takes a snapshot
\* (CpcUnion::sketch, which Merger::counter calls) leaves every accumulator
\* as it was, and a snapshot handle that is still held keeps the contents and
\* the estimate it had when it was taken, whichever merges happen later; the
\* accumulators themselves are never destroyed by a merge of a snapshot.
C16_SnapshotIsACopy ==
    [][/\ UnionIds \subseteq DOMAIN objs'
       /\ (snaps' \ snaps # {}) => \A u \in UnionIds : objs'[u] = objs[u]
       /\ \A s \in snaps \cap snaps' :
            /\ s.id \in DOMAIN objs'
            /\ objs'[s.id] = objs[s.id]
            /\ CpcSketch_estimate(objs'[s.id]) = s.est]_vars

\* A snapshot taken from a non-empty union is still held, unchanged, after
\* the union absorbed a handle that raised its estimate.
C16_Witness ==
    \E s \in snaps, u \in UnionIds :
        /\ s.est > 0
        /\ s.got # got[u] /\ s.got \subseteq got[u]
        /\ CpcSketch_estimate(objs[s.id]) = s.est
        /\ CpcSketch_estimate(CpcUnion_sketch(objs[u])) > s.est

\* The estimate of the handle union u would return now.
UnionEstimate(u) == CpcSketch_estimate(CpcUnion_sketch(objs[u]))

C18_NoneUntilFirstMerge ==
    /\ (ixMerges = 0) => ThetaIntersection_sketch(ix) = NoneSketch
    /\ (ixMerges > 0) => ThetaIntersection_sketch(ix).some

\* Two sketches without a common value were merged: the result is Some of
\* an empty sketch, not None.
C18_Witness ==
    /\ ixMerges = MaxIxMerges
    /\ ThetaIntersection_sketch(ix).some
    /\ StaticThetaSketch_estimate(ThetaIntersection_sketch(ix).sketch) = 0

\* The exponent of the largest power of two not above k, and of the
\* smallest power of two not below k.
FloorLog2(k) == CHOOSE e \in 0..k : Pow2(e) <= k /\ k < Pow2(e + 1)
CeilLog2(k) == CHOOSE e \in 0..k : Pow2(e) >= k /\ (e = 0 \/ Pow2(e - 1) < k)

\* C19 as stated: for every k >= 1, HeavyHitter::new(k) creates its
\* HhSketch with lg2_k = ceil(log2(k)) + 2.
C19_Lg2kIsCeilLog2Plus2 ==
    (topk >= 1 /\ hhLg2k # 0) => hhLg2k = CeilLog2(topk) + 2

\* C19 as amended: for every k >= 1, HeavyHitter::new(k) creates its
\* HhSketch with lg2_k = max(floor(log2(k)), 1) + 2.
C19_Lg2kIsFloorLog2Plus2 ==
    (topk >= 1 /\ hhLg2k # 0) =>
        hhLg2k = (IF FloorLog2(topk) >= 1 THEN FloorLog2(topk) ELSE 1) + 2

\* A sketch was created for a k that is not a power of two, rounded down.
C19_Witness ==
    /\ topk > 2 /\ hhLg2k > 0
    /\ Pow2(hhLg2k - 2) < topk
    /\ topk < Pow2(hhLg2k - 1)

\* The same lines written with one kind of terminator throughout.
AllEndings(e) == [i \in 1..Len(srcLines) |-> e]
NoLineEndsInCR ==
    \A i \in 1..Len(srcLines) :
        srcLines[i] = <<>> \/ srcLines[i][Len(srcLines[i])] # CR

\* What C20 says of a finished run: the reducer was given exactly the
\* lines of the stream, in order and without terminators, nothing of the
\* stream is left, and the DOS and the UNIX file of the same lines leave
\* the reducer in the same state.
OneCallPerLine ==
    /\ rest = <<>>
    /\ delivered = srcLines
    /\ reduce_stream(StreamOf(srcLines, AllEndings("dos")), <<>>)
         = reduce_stream(StreamOf(srcLines, AllEndings("unix")), <<>>)

\* C20 as stated: for every stream of lines terminated by \n or \r\n,
\* reduce_stream calls read_line once per line, in order, without the
\* terminator, returns after the last line, and DOS and UNIX endings of the
\* same lines give the same reducer state.
C20_EveryLineOnceAsWritten == returned => OneCallPerLine

\* C20 as amended: the same, for streams none of whose lines ends in a
\* carriage return of its own.
C20_EveryLineOnceUnlessCR == (returned /\ NoLineEndsInCR) => OneCallPerLine

\* A finished run over a file that mixes DOS and UNIX endings and has a
\* carriage return inside a line.
C20_Witness ==
    /\ returned /\ NoLineEndsInCR
    /\ Len(srcLines) = MaxStreamLines
    /\ \E i, j \in 1..Len(ends) : ends[i] = "dos" /\ ends[j] = "unix"
    /\ \E i \in 1..Len(srcLines) : srcLines[i] = <<CR, 97>>
    /\ delivered = srcLines

\* The reduction is over: the counting run has read its input, or the
\* merging run has read everything the mappers wrote.
RunOver == ~panicked /\ (phase = "map" \/ MergeDone)

\* What C21 says of the output o of a finished run printed with raw: one
\* line in the un-keyed modes, the rounded estimate or the serialized
\* sketch; in the keyed modes one line per key of the input, made of the
\* key, a space and the same for the counter of that key's values.
OutputAsClaimed(o, raw) ==
    /\ ~o.panicked
    /\ IF mode = "plain"
       THEN LET c == IF phase = "map" THEN whole ELSE Merger_counter(merger)
            IN  /\ Cardinality(o.lines) = 1
                /\ o.lines = {IF raw THEN Counter_serialize(c)
                              ELSE FormatCount(Counter_estimate(c))}
       ELSE /\ Cardinality(o.lines) = Cardinality(DOMAIN proj)
            /\ \A key \in DOMAIN proj :
                 /\ Cardinality({l \in o.lines : KeyOfLine(l) = key}) = 1
                 /\ \E l \in o.lines :
                      /\ l = key \o <<32>> \o ValueOfLine(l)
                      /\ ValueOfLine(l) =
                           (IF raw THEN Counter_serialize(proj[key])
                            ELSE FormatCount(Counter_estimate(proj[key])))

\* C21 as stated: the output of a finished run has exactly one line in every
\* un-keyed mode and exactly one line per distinct key of the input in
\* every keyed mode (key, space, value); no key is on two lines.
C21_OneLinePerKey ==
    RunOver =>
        \A raw \in BOOLEAN :
            \A o \in main_output(mode = "keyed", phase = "merge", raw) :
                OutputAsClaimed(o, raw)

\* C21 as amended: the same, for inputs whose keys are all valid UTF-8.
C21_OneLinePerUtf8Key ==
    (RunOver /\ \A key \in DOMAIN proj : IsUtf8(key)) =>
        \A raw \in BOOLEAN :
            \A o \in main_output(mode = "keyed", phase = "merge", raw) :
                OutputAsClaimed(o, raw)

\* A finished keyed merge over an input with two keys, printed as two lines.
C21_Witness ==
    /\ MergeDone /\ mode = "keyed"
    /\ Cardinality(DOMAIN proj) = 2
    /\ \A key \in DOMAIN proj : IsUtf8(key)
    /\ \A o \in main_output(TRUE, TRUE, FALSE) : Cardinality(o.lines) = 2

\* The keys of table t after it has read line: one more than before when
\* the line has a space and its key is new, the same otherwise.
KeysAfter(t, line) ==
    IF NoSpace(line) THEN DOMAIN t ELSE DOMAIN t \cup {KeyOfLine(line)}

\* C22: the table of a KeyedCounter or KeyedMerger never loses an entry;
\* a read_line adds the entry of the line's key when the key is new and
\* nothing otherwise (also when the line's value then makes the inner
\* read_line panic), so that the table of the counting run always has
\* exactly the keys observed so far.
C22_OneEntryPerKey ==
    [][/\ DOMAIN kwhole \subseteq DOMAIN kwhole'
       /\ DOMAIN kmerger \subseteq DOMAIN kmerger'
       /\ \A g \in Groups : DOMAIN kparts[g] \subseteq DOMAIN kparts'[g]
       /\ (mode = "keyed" /\ op' = "read" /\ nread' # nread) =>
             DOMAIN kwhole' = KeysAfter(kwhole, lastLine')
       /\ (mode = "keyed" /\ op' = "merge" /\ <<pending, foreign>>' # <<pending, foreign>>) =>
             DOMAIN kmerger' = KeysAfter(kmerger, lastLine')
       /\ DOMAIN kwhole' = DOMAIN proj']_vars

\* The merging run has read a line for each of two keys and two lines for
\* the key that both groups saw.
C22_Witness ==
    /\ MergeDone /\ mode = "keyed"
    /\ Cardinality(DOMAIN kmerger) = 2
    /\ DOMAIN kparts[1] \cap DOMAIN kparts[2] # {}
    /\ DOMAIN kmerger = DOMAIN proj

\* The keys the slot-1 sketch has observed with a positive weight.
ObservedWithWeight == {key \in observed : seen[1][key] > 0}

\* The rows are exactly one row per key of ks, with lb = ub = the key's sum.
ExactRowsOf(ks) ==
    estimate_no_fn(heap, sk[1]) = {[key |-> key, lb |-> seen[1][key], ub |-> seen[1][key]] : key \in ks}

WithinHalf == Cardinality(observed) <= Pow2(sk[1].lg2_k - 1)

\* C23 as written: while at most 2^(L-1) distinct keys have been observed,
\* estimate_no_fn() has exactly one row per observed key, with lb = ub = the
\* sum of the weights given to the key.
C23_EveryObservedKeyExact ==
    (sk[1].alive /\ fault = "none" /\ WithinHalf) => ExactRowsOf(observed)

\* C23: while at most 2^(L-1) distinct keys have been observed,
\* estimate_no_fn() has exactly one row per key observed with a positive
\* weight, with lb = ub = the sum of the weights given to the key, the run
\* does not fault, and merging the sketch with a clone of itself doubles
\* the lb and the ub of every row.
C23_EveryWeightedKeyExact ==
    [][(sk'[1].alive /\ Cardinality(observed') <= Pow2(sk'[1].lg2_k - 1))
       => /\ fault' = "none"
          /\ estimate_no_fn(heap', sk'[1])
               = {[key |-> key, lb |-> seen'[1][key], ub |-> seen'[1][key]]
                  : key \in {x \in observed' : seen'[1][x] > 0}}
          /\ lastQuery'.kind = "merge_clone"
               => estimate_no_fn(heap', sk'[1])
                    = {[key |-> r.key, lb |-> 2 * r.lb, ub |-> 2 * r.ub]
                       : r \in estimate_no_fn(heap, sk[1])}]_vars

\* A sketch within the limit was merged with its clone and reports a row.
C23_Witness ==
    /\ sk[1].alive /\ fault = "none" /\ WithinHalf
    /\ lastQuery.kind = "merge_clone"
    /\ estimate_no_fn(heap, sk[1]) # {}

\* C24: with zero observations a fresh HhSketch returns no row from
\* estimate_no_fp() and from estimate_no_fn(), a fresh distinct-count handle
\* estimates 0, and so does the snapshot of a fresh union.
C24_FreshSketchesAreEmpty ==
    /\ (sk[1].alive /\ observed = {})
         => /\ estimate_no_fp(heap, sk[1]) = {}
            /\ estimate_no_fn(heap, sk[1]) = {}
            /\ lastQuery.kind \in {"estimate_no_fp", "estimate_no_fn"} => lastQuery.rows = {}
    /\ whole = CpcSketch_new
         => /\ CpcSketch_estimate(whole) = 0
            /\ lastQuery.kind = "estimate" => lastQuery.est = 0
    /\ merger = CpcUnion_new => CpcSketch_estimate(CpcUnion_sketch(merger)) = 0

\* A fresh HhSketch has been queried.
C24_Witness ==
    /\ sk[1].alive /\ observed = {}
    /\ whole = CpcSketch_new
    /\ lastQuery.kind = "estimate_no_fn"

QueryKinds == {"estimate_no_fp", "estimate_no_fn", "estimate"}

\* C25: a query is a pure read. A step that makes a query leaves the heap,
\* the engine state and interning table of the HhSketch and the
\* distinct-count handle as they were, and a query repeated with no update
\* in between returns what the previous call returned.
C25_QueriesArePureReads ==
    [][lastQuery'.kind \in QueryKinds
       => /\ heap' = heap
          /\ sk' = sk
          /\ whole' = whole
          /\ fault' = fault
          /\ lastQuery.kind = lastQuery'.kind => lastQuery' = lastQuery
          /\ lastQuery'.kind = "estimate_no_fn" => lastQuery'.rows = estimate_no_fn(heap, sk[1])
          /\ lastQuery'.kind = "estimate_no_fp" => lastQuery'.rows = estimate_no_fp(heap, sk[1])
          /\ lastQuery'.kind = "estimate" => lastQuery'.est = CpcSketch_estimate(whole)]_vars

\* A sketch that retains a key and has interned it was queried and
\* returned a row; the distinct-count handle has seen a value.
C25_Witness ==
    /\ lastQuery.kind = "estimate_no_fn"
    /\ lastQuery.rows # {}
    /\ sk[1].intern # {}
    /\ whole # CpcSketch_new

\* The smaller (greater) of two extremes, either of which may be absent.
LeastOf(a, b) ==
    IF a = <<>> THEN b ELSE IF b = <<>> THEN a ELSE IF a[1] <= b[1] THEN a ELSE b
GreatestOf(a, b) ==
    IF a = <<>> THEN b ELSE IF b = <<>> THEN a ELSE IF a[1] >= b[1] THEN a ELSE b

\* C26: for two KLL sketches of the same k, a.merge(b) leaves a with
\* get_n() the sum of the two stream lengths, the smaller of the minima and
\* the larger of the maxima, and leaves b unchanged; a fresh sketch is empty
\* with n = 0, and n grows by exactly one per update.
C26_MergeAddsStreams ==
    [][LET a == lastQuery'.est
           b == 3 - a
       IN  /\ (lastQuery'.kind = "kll_merge" /\ kll[a].k = kll[b].k)
                => /\ KllFloatSketch_get_n(kll'[a])
                        = KllFloatSketch_get_n(kll[a]) + KllFloatSketch_get_n(kll[b])
                   /\ KllFloatSketch_get_min_value(kll'[a])
                        = LeastOf(KllFloatSketch_get_min_value(kll[a]),
                                  KllFloatSketch_get_min_value(kll[b]))
                   /\ KllFloatSketch_get_max_value(kll'[a])
                        = GreatestOf(KllFloatSketch_get_max_value(kll[a]),
                                     KllFloatSketch_get_max_value(kll[b]))
                   /\ KllFloatSketch_get_k(kll'[a]) = KllFloatSketch_get_k(kll[a])
                   /\ kll'[b] = kll[b]
           /\ lastQuery'.kind = "kll_new"
                => /\ KllFloatSketch_is_empty(kll'[a])
                   /\ KllFloatSketch_get_n(kll'[a]) = 0
           /\ lastQuery'.kind = "kll_update"
                => /\ KllFloatSketch_get_n(kll'[a]) = KllFloatSketch_get_n(kll[a]) + 1
                   /\ ~KllFloatSketch_is_empty(kll'[a])
                   /\ kll'[b] = kll[b]]_vars

\* Two non-empty sketches of the same k with different extremes were merged.
C26_Witness ==
    /\ lastQuery.kind = "kll_merge"
    /\ kll[1].k = kll[2].k
    /\ kll[lastQuery.est].n = 3
    /\ kll[3 - lastQuery.est].n = 1
    /\ kll[lastQuery.est].min # kll[lastQuery.est].max

\* C30: from_msgpack checks the metadata of the envelope against the sketch
\* it carries: whenever it returns a sketch, the envelope says "kll",
\* version "1.0" and value type "f32", and its k and n are those of the
\* sketch returned.
C30_EnvelopeIsValidated ==
    envResult.status = "ok"
        => LET d == rmp_from_slice(env).data
           IN  /\ d.sketch_type = "kll"
               /\ d.version = "1.0"
               /\ d.value_type = "f32"
               /\ d.k = KllFloatSketch_get_k(envResult.sketch)
               /\ d.n = KllFloatSketch_get_n(envResult.sketch)

\* C27: after a.merge(b), a's total weight is a's total weight before the
\* call plus b's (the weights replayed are not counted a second time), and
\* a's offset is the offset a has once b's rows are replayed plus b's
\* offset.
C27_MergeSumsWeightAndOffset ==
    [][\A i, j \in SketchIds :
        (Merge(i, j) /\ fault' = "none")
            => /\ sk'[i].total_weight = sk[i].total_weight + sk[j].total_weight
               /\ sk'[i].total_weight = seen'[i][<<97>>] + seen'[i][<<98>>]
               /\ \E c \in MergeReplay([heap |-> heap, s |-> sk[i], fault |-> "none"],
                                       heap, EngineState(sk[j])) :
                    /\ c.s.counts = sk'[i].counts
                    /\ sk'[i].offset = c.s.offset + sk[j].offset]_vars

\* A sketch that has purged was merged into: its offset is its own offset
\* after the replay plus the other sketch's, both positive.
C27_Witness ==
    \E i, j \in SketchIds :
        /\ i # j /\ sk[i].alive /\ sk[j].alive /\ fault = "none"
        /\ sk[j].offset > 0
        /\ sk[i].offset > sk[j].offset
        /\ sk[i].total_weight = seen[i][<<97>>] + seen[i][<<98>>]
        /\ sk[i].total_weight > sk[j].total_weight
        /\ sk[j].total_weight > 0

\* No two entries of an interning table hold the same bytes.
NoEqualEntries(h, s) ==
    \A a, b \in s.intern :
        (a \in DOMAIN h /\ b \in DOMAIN h /\ h[a] = h[b]) => a = b

\* C29: the interning table never holds two entries of equal byte content,
\* and an update whose content is already interned inserts nothing and
\* hands the engine the address of the existing entry.
C29_OneEntryPerContent ==
    [][\A i \in SketchIds :
        /\ (sk'[i].alive /\ fault' = "none") => NoEqualEntries(heap', sk'[i])
        /\ \A v \in HhKeys, w \in Weights :
            \A a \in {x \in sk[i].intern : x \in DOMAIN heap /\ heap[x] = v} :
                (Update(i, v, w) /\ fault' = "none")
                    => /\ sk'[i].intern \subseteq sk[i].intern
                       /\ DOMAIN heap' \subseteq DOMAIN heap
                       /\ \E o \in EngineUpdate(sk[i], a, w) :
                            /\ o.e.counts = sk'[i].counts
                            /\ o.e.offset = sk'[i].offset]_vars

\* A key was updated more than once at one address while the table holds
\* another key too.
C29_Witness ==
    \E i \in SketchIds :
        /\ sk[i].alive /\ fault = "none"
        /\ Cardinality(sk[i].intern) = 2
        /\ sk[i].offset = 0
        /\ \E a \in DOMAIN sk[i].counts : sk[i].counts[a] = 3

\* The lines the HeavyHitter has read at least once.
FedKeys == {key \in TopKeys : fed[key] > 0}

\* The k lines strictly more frequent than all the others, when there are
\* such; the empty set when there are not.
HeaviestK ==
    LET S == {a \in FedKeys : Cardinality({b \in FedKeys : fed[b] >= fed[a]}) <= hhr.k}
    IN  IF Cardinality(S) = hhr.k
           /\ \A a \in S, b \in FedKeys \ S : fed[a] > fed[b]
        THEN S ELSE {}

\* What estimate() yields against the rows of estimate_no_fn(): as many
\* entries as k and the rows allow, each the key and ub of a row, no row
\* twice, in non-increasing order of ub, and no row left out with a ub
\* above that of a row yielded.
YieldsGreatestRows ==
    LET rows == HeavyHitter_rows(hhr)
    IN  \A s \in HeavyHitter_estimate(hhr) :
            /\ Len(s) = Min(hhr.k, Cardinality(rows))
            /\ \A i \in DOMAIN s :
                \E r \in rows : r.key = s[i].key /\ r.ub = s[i].ub
            /\ \A i, j \in DOMAIN s : i < j => (s[i].key # s[j].key /\ s[i].ub >= s[j].ub)
            /\ \A r \in rows :
                (\A i \in DOMAIN s : s[i].key # r.key)
                    => \A i \in DOMAIN s : r.ub <= s[i].ub

\* estimate() yields exactly the k heaviest lines.
YieldsHeaviestK ==
    HeaviestK # {}
        => \A s \in HeavyHitter_estimate(hhr) :
               {s[i].key : i \in DOMAIN s} = {TopLine(a) : a \in HeaviestK}

C28_PurgedWitness ==
    /\ hhr.sketch.alive
    /\ hhr.sketch.offset > 0
    /\ Cardinality(HeavyHitter_rows(hhr)) > hhr.k

====
